---------------------------- MODULE Spec2Model ----------------------------
(***************************************************************************)
(* Model of the hypha per-topic mesh manager (TopicMesh) and of the        *)
(* SporeNode driver loop that uses it.                                     *)
(*                                                                         *)
(* The repository holds two copies of the mesh manager:                    *)
(*   "hypha": src/src/mesh.rs        (crate hypha, used by src/src/lib.rs  *)
(*                                    and by every test under src/tests)   *)
(*   "core" : src/hypha-core/src/mesh.rs (crate hypha_core)                *)
(* Both are modelled; the variable `variant` fixes which one a behaviour   *)
(* runs.                                                                   *)
(*                                                                         *)
(* Numbers.  f32 values are modelled exactly as fixed-point integers:      *)
(*   energy, conductivity, pressure : thousandths (1.0 = 1000)             *)
(*   score                          : 1/50000     (1.0 = 50000)            *)
(* so that the affine score has no rounding.  The non-finite f32 values    *)
(* are encoded as the integers NaN, PInf, NInf below.                       *)
(* Time is in seconds.                                                     *)
(***************************************************************************)
EXTENDS Integers, Sequences, FiniteSets, TLC

VARIABLES
    variant,    \* which copy of mesh.rs runs: "hypha" or "core"
    mesh,       \* the TopicMesh (a record, see NewMesh)
    now,        \* the monotonic clock read by Instant::now()
    panicked,   \* TRUE once an operation has panicked (the caller is gone)
    last,       \* the last operation and what it returned
    beats,      \* the number of heartbeats run so far
    calls,      \* history: the record_message calls made, as <<peer_id, msg_id>>
    nodes,      \* the SporeNodes of the network scenario (see NewNode)
    net,        \* gossip: the messages published and not yet delivered (msgs)
                \* and the number of messages published by outside peers
    known_bids, \* SporeNode::known_bids of the bidding node, a sequence of Bids
    retry       \* the publish-with-retry loop of examples/netem_node.rs

vars == <<variant, mesh, now, panicked, last, beats, calls, nodes, net, known_bids, retry>>

-----------------------------------------------------------------------------
(* Bounds of the model *)

MaxNow == 60            \* the clock stops advancing here
MaxHeartbeats == 2      \* heartbeats explored in one behaviour
MaxSpikeCond == 9000    \* handle_spike is explored while conductivity <= this
MaxCalls == 3           \* record_message calls explored in one behaviour
MaxNonFinite == 1       \* peers whose energy_score is made NaN or infinite
MaxTicks == 1           \* timer ticks of one node
MaxOriginals == 1       \* messages published by peers outside the model

(* Program constants *)

DDefault == 6
DLowDefault == 4
DHighDefault == 12
DLazyDefault == 6
DCritical == 2
DLowCritical == 1
DHighCritical == 4
DLazyCritical == 2
DLowBattery == 4
DLowLowBattery == 2
DHighLowBattery == 8
DLazyLowBattery == 4
PruneBackoffSecs == 60      \* Duration::from_secs(60)
WeakLinkBackoffSecs == 30   \* Duration::from_secs(30)
SpikeThreshold == 200       \* intensity > 200
IHaveMaxIds == 10           \* message_cache.iter().take(10)
OpportunisticTake == 2      \* .take(2)

One == 1000                              \* 1.0 in thousandths
OpportunisticGraftThreshold == 15000     \* 0.3
GraftThreshold == 5000                   \* 0.1
PruneThreshold == 2500                   \* 0.05
WeakLinkMargin == 5000                   \* 0.1
CondFloor == 500                         \* 0.5
CondCeil == 10000                        \* 10.0
CondScoreCap == 5000                     \* conductivity.min(5.0)
PressureCap == 10000                     \* pressure.min(10.0)
ActivityCap == 100                       \* message_count / 100.0, .min(1.0)
SpikeBump == 2000                        \* conductivity += 2.0
SpikePressure == 10000                   \* set_pressure(10.0)

(* std::time: Duration holds u64 seconds and Instant + Duration panics on  *)
(* overflow of the platform's signed seconds.  The widths are scaled from  *)
(* 64 to 16 bits: TLC's integers are 32 bits wide.                         *)
DurationMax == 2^16 - 1
InstantMax == 2^15 - 1

Peers == {"a", "b", "c", "d", "e"}
Variants == {"hypha", "core"}
NoPeer == "none"

-----------------------------------------------------------------------------
(* f32 with its non-finite values *)

\* Encoded as integers outside the range of every finite value of the model,
\* ordered as f32::total_cmp orders them.
NInf == -(10^6)
PInf == 10^6
NaN == 2 * 10^6
NonFinite == {NaN, PInf, NInf}

IsNaN(x) == x = NaN
IsFinite(x) == x \notin NonFinite

\* a < b on f32: false when either side is NaN
FLt(a, b) == a # NaN /\ b # NaN /\ a < b

FGt(a, b) == FLt(b, a)

\* a >= b on f32: false when either side is NaN
FGe(a, b) == a # NaN /\ b # NaN /\ a >= b

\* f32::partial_cmp: "none" when either side is NaN
PartialCmp(a, b) ==
    IF a = NaN \/ b = NaN THEN "none"
    ELSE IF a = b THEN "eq"
    ELSE IF a < b THEN "lt"
    ELSE "gt"

\* f32::total_cmp: -inf < finite < +inf < NaN (f32::NAN has the sign bit clear)
TotalCmp(a, b) == IF a < b THEN "lt" ELSE IF a > b THEN "gt" ELSE "eq"

\* a + k for a finite k
FAddFinite(a, k) == IF IsFinite(a) THEN a + k ELSE a

\* a + b on f32
FAdd(a, b) ==
    IF a = NaN \/ b = NaN THEN NaN
    ELSE IF IsFinite(a) /\ IsFinite(b) THEN a + b
    ELSE IF IsFinite(a) THEN b
    ELSE IF IsFinite(b) THEN a
    ELSE IF a = b THEN a ELSE NaN

Min(a, b) == IF a < b THEN a ELSE b
Max(a, b) == IF a > b THEN a ELSE b
Abs(x) == IF x < 0 THEN -x ELSE x

-----------------------------------------------------------------------------
(* MeshConfig *)

DefaultConfig ==
    [d |-> DDefault, d_low |-> DLowDefault, d_high |-> DHighDefault,
     d_lazy |-> DLazyDefault,
     opportunistic_graft_threshold |-> OpportunisticGraftThreshold,
     graft_threshold |-> GraftThreshold,
     prune_threshold |-> PruneThreshold]

\* MeshConfig::adaptive(energy_score), energy in thousandths or non-finite
Adaptive(energy) ==
    IF FLt(energy, 200)
    THEN [DefaultConfig EXCEPT !.d = DCritical, !.d_low = DLowCritical,
                               !.d_high = DHighCritical, !.d_lazy = DLazyCritical]
    ELSE IF FLt(energy, 500)
    THEN [DefaultConfig EXCEPT !.d = DLowBattery, !.d_low = DLowLowBattery,
                               !.d_high = DHighLowBattery, !.d_lazy = DLazyLowBattery]
    ELSE DefaultConfig

-----------------------------------------------------------------------------
(* MeshPeer and its score *)

\* MeshPeer::new
NewPeer(energy) ==
    [energy_score |-> energy, conductivity |-> One, pressure |-> 0,
     message_count |-> 0, in_mesh |-> FALSE]

\* MeshPeer::score, in 1/50000
\*   energy*0.3 + min(count/100,1)*0.2 + min(cond,5)/5*0.3 + (1 - min(p,10)/10)*0.2
\* f32::min returns the other operand when one is NaN.
Score(peer) ==
    LET energy_term ==
            IF IsFinite(peer.energy_score) THEN 15 * peer.energy_score
            ELSE peer.energy_score
        activity_term == 100 * Min(peer.message_count, ActivityCap)
        cond_term == 3 * Min(peer.conductivity, CondScoreCap)
        pressure_term ==
            IF peer.pressure = NInf THEN PInf
            ELSE IF peer.pressure \in {NaN, PInf} THEN 0
            ELSE PressureCap - Min(peer.pressure, PressureCap)
    IN  FAdd(FAdd(energy_term, activity_term + cond_term), pressure_term)

-----------------------------------------------------------------------------
(* TopicMesh: maps are functions whose domain is the key set *)

Put(f, k, v) == [x \in (DOMAIN f) \cup {k} |-> IF x = k THEN v ELSE f[x]]
Restrict(f, S) == [x \in S |-> f[x]]
EmptyMap == [x \in {} |-> 0]

\* TopicMesh::new (pulse_phase is added with the pulse operations)
NewMesh(config) ==
    [config |-> config,
     local_pressure |-> 0,
     mesh_peers |-> {},
     known_peers |-> EmptyMap,
     message_cache |-> {},
     duplicate_count |-> 0,
     backoff |-> EmptyMap,
     pulse_phase |-> 0]

Known(m) == DOMAIN m.known_peers
InBackoff(m, id) == id \in DOMAIN m.backoff
PeerScore(m, id) == Score(m.known_peers[id])

\* Instant + Duration: None on overflow (the operator + panics then)
InstantAdd(t, d) == t + d
InstantAddOverflows(t, d) == d > InstantMax - t

\* set_pressure
SetPressure(m, pressure) == [m EXCEPT !.local_pressure = pressure]

\* add_peer: entry(id).or_insert_with(MeshPeer::new)
AddPeer(m, id, energy) ==
    IF id \in Known(m) THEN m
    ELSE [m EXCEPT !.known_peers = Put(@, id, NewPeer(energy))]

\* update_peer_pressure
UpdatePeerPressure(m, id, pressure) ==
    IF id \in Known(m)
    THEN [m EXCEPT !.known_peers[id].pressure = pressure]
    ELSE m

\* update_peer_score: src/src/mesh.rs updates a known peer only;
\* hypha-core inserts the peer when it is unknown
UpdatePeerScore(m, id, energy) ==
    IF id \in Known(m)
    THEN [m EXCEPT !.known_peers[id].energy_score = energy]
    ELSE IF variant = "core"
    THEN [m EXCEPT !.known_peers = Put(@, id, NewPeer(energy))]
    ELSE m

\* the conductivity a recorded message leaves:
\*   += 0.1 * max(|local_pressure - peer.pressure|, 0.1), hypha-core: .min(10.0)
Thicken(conductivity, local_pressure, pressure) ==
    LET grad == Max(Abs(local_pressure - pressure), One \div 10)
        c == conductivity + grad \div 10
    IN  IF variant = "core" THEN Min(c, CondCeil) ELSE c

\* mutant: the peer is credited only for ids not seen before
RecordMessageCreditsNewOnly(m, peer_id, msg_id) ==
    LET m1 == IF peer_id \in Known(m) /\ msg_id \notin m.message_cache
              THEN [m EXCEPT !.known_peers[peer_id].message_count = @ + 1]
              ELSE m
    IN  IF msg_id \in m1.message_cache
        THEN [m1 EXCEPT !.duplicate_count = @ + 1]
        ELSE [m1 EXCEPT !.message_cache = @ \cup {msg_id}]

\* record_message
RecordMessage(m, peer_id, msg_id) ==
    LET m1 == IF peer_id \in Known(m)
              THEN [m EXCEPT !.known_peers[peer_id].message_count = @ + 1,
                             !.known_peers[peer_id].conductivity =
                                 Thicken(@, m.local_pressure,
                                         m.known_peers[peer_id].pressure)]
              ELSE m
    IN  IF msg_id \in m1.message_cache
        THEN [m1 EXCEPT !.duplicate_count = @ + 1]
        ELSE [m1 EXCEPT !.message_cache = @ \cup {msg_id}]

\* handle_graft: the new membership and the returned bool.
\* src/src/mesh.rs neither looks at backoff nor sets in_mesh.
GraftAccepts(m, peer_id) ==
    /\ (variant = "core" => ~InBackoff(m, peer_id))
    /\ peer_id \in Known(m)
    /\ FGe(PeerScore(m, peer_id), m.config.graft_threshold)
    /\ Cardinality(m.mesh_peers) < m.config.d_high

HandleGraft(m, peer_id) ==
    IF GraftAccepts(m, peer_id)
    THEN [m EXCEPT !.mesh_peers = @ \cup {peer_id},
                   !.known_peers[peer_id].in_mesh =
                       IF variant = "core" THEN TRUE ELSE @]
    ELSE m

\* handle_prune (Instant::now() + backoff panics on overflow: see HandlePrunePanics)
HandlePrune(m, peer_id, backoff, t) ==
    LET m1 == [m EXCEPT !.mesh_peers = @ \ {peer_id}]
        m2 == IF peer_id \in Known(m1)
              THEN [m1 EXCEPT !.known_peers[peer_id].in_mesh = FALSE]
              ELSE m1
    IN  [m2 EXCEPT !.backoff = Put(@, peer_id, InstantAdd(t, backoff))]

HandlePrunePanics(backoff, t) == InstantAddOverflows(t, backoff)

\* what a panicking handle_prune has done before Instant::now() + backoff
HandlePrunePartial(m, peer_id) ==
    LET m1 == [m EXCEPT !.mesh_peers = @ \ {peer_id}]
    IN  IF peer_id \in Known(m1)
        THEN [m1 EXCEPT !.known_peers[peer_id].in_mesh = FALSE]
        ELSE m1

\* handle_spike: no clamp on the conductivity in either copy
HandleSpike(m, source, intensity) ==
    IF intensity > SpikeThreshold
    THEN LET m1 == SetPressure(m, SpikePressure)
         IN  IF source \in Known(m1)
             THEN [m1 EXCEPT !.known_peers[source].conductivity = @ + SpikeBump]
             ELSE m1
    ELSE m

-----------------------------------------------------------------------------
(* heartbeat.  HashMap/HashSet iteration order and the PRNG are not fixed   *)
(* by the code, so each step of the heartbeat yields the set of its         *)
(* possible outcomes.  A heartbeat state h holds the mesh m, the control    *)
(* messages pushed so far ctl, and panic.                                   *)

Ctl(to, kind, backoff, ids) == [to |-> to, kind |-> kind, backoff |-> backoff, ids |-> ids]
GraftCtl(to) == Ctl(to, "Graft", 0, {})
PruneCtl(to, backoff) == Ctl(to, "Prune", backoff, {})
IHaveCtl(to, ids) == Ctl(to, "IHave", 0, ids)
IWantCtl(ids) == Ctl(NoPeer, "IWant", 0, ids)

\* every step is skipped once the heartbeat has panicked
Then(H, Step(_)) == UNION {IF h.panic THEN {h} ELSE Step(h) : h \in H}

\* the (id, score) pairs of the mesh members that have a record
MeshScored(m) == m.mesh_peers \cap Known(m)

\* mutant: min_by replaced by max_by
LowestTakesMax(m, S) == {x \in S : \A y \in S : PeerScore(m, x) >= PeerScore(m, y)}

\* Iterator::min_by / max_by over the ids in S by score: the candidates for
\* the result under any iteration order (min_by keeps the first minimum,
\* max_by the last maximum)
Lowest(m, S) == {x \in S : \A y \in S : PeerScore(m, x) <= PeerScore(m, y)}
Highest(m, S) == {x \in S : \A y \in S : PeerScore(m, x) >= PeerScore(m, y)}

\* a.1.partial_cmp(&b.1).unwrap() panics as soon as one compared score is NaN;
\* a fold over two or more elements compares every element
CmpPanics(m, S) ==
    /\ variant = "hypha"
    /\ Cardinality(S) >= 2
    /\ \E x \in S : IsNaN(PeerScore(m, x))

\* conductivity decay: (c * 0.95).max(0.5)
DecayOne(c) == Max((c * 95) \div 100, CondFloor)

Decay(h) ==
    {[h EXCEPT !.m.known_peers =
        [id \in Known(h.m) |->
            [h.m.known_peers[id] EXCEPT !.conductivity = DecayOne(@)]]]}

\* backoff.retain(|_, expiry| *expiry > now)
SweepBackoff(h, t) ==
    {[h EXCEPT !.m.backoff =
        Restrict(@, {id \in DOMAIN h.m.backoff : h.m.backoff[id] > t})]}

RECURSIVE PutAll(_, _, _)
PutAll(f, S, v) ==
    IF S = {} THEN f
    ELSE LET k == CHOOSE x \in S : TRUE IN PutAll(Put(f, k, v), S \ {k}, v)

\* clear in_mesh (hypha-core only) for the ids of S that have a record
ClearInMesh(m, S) ==
    IF variant = "core"
    THEN [m EXCEPT !.known_peers =
            [id \in Known(m) |->
                IF id \in S THEN [m.known_peers[id] EXCEPT !.in_mesh = FALSE]
                ELSE m.known_peers[id]]]
    ELSE m

\* score-based prune: members below prune_threshold, or without a record
ToPrune(m) ==
    {id \in m.mesh_peers :
        IF id \in Known(m) THEN FLt(PeerScore(m, id), m.config.prune_threshold)
        ELSE TRUE}

ScorePrune(h, t) ==
    LET S == ToPrune(h.m)
        m1 == ClearInMesh([h.m EXCEPT !.mesh_peers = @ \ S], S)
        m2 == [m1 EXCEPT !.backoff = PutAll(@, S, t + PruneBackoffSecs)]
    IN  {[h EXCEPT !.m = m2,
                   !.ctl = @ \cup {PruneCtl(id, PruneBackoffSecs) : id \in S}]}

\* one removal of the overflow prune; src/src/mesh.rs records no backoff
\* and leaves in_mesh set
OverflowRemove(h, id, t) ==
    LET m1 == ClearInMesh([h.m EXCEPT !.mesh_peers = @ \ {id}], {id})
        m2 == IF variant = "core"
              THEN [m1 EXCEPT !.backoff = Put(@, id, t + PruneBackoffSecs)]
              ELSE m1
    IN  [h EXCEPT !.m = m2, !.ctl = @ \cup {PruneCtl(id, PruneBackoffSecs)}]

\* mutant: the loop bound off by one (while len > d_high + 1)
RECURSIVE OverflowPruneOffByOne(_, _)
OverflowPruneOffByOne(h, t) ==
    IF Cardinality(h.m.mesh_peers) <= h.m.config.d_high + 1 THEN {h}
    ELSE IF CmpPanics(h.m, MeshScored(h.m)) THEN {[h EXCEPT !.panic = TRUE]}
    ELSE IF MeshScored(h.m) = {} THEN {h}
    ELSE UNION {OverflowPruneOffByOne(OverflowRemove(h, id, t), t) :
                    id \in Lowest(h.m, MeshScored(h.m))}

RECURSIVE OverflowPrune(_, _)
OverflowPrune(h, t) ==
    IF Cardinality(h.m.mesh_peers) <= h.m.config.d_high THEN {h}
    ELSE IF CmpPanics(h.m, MeshScored(h.m)) THEN {[h EXCEPT !.panic = TRUE]}
    ELSE IF MeshScored(h.m) = {} THEN {h}
    ELSE UNION {OverflowPrune(OverflowRemove(h, id, t), t) :
                    id \in Lowest(h.m, MeshScored(h.m))}

\* insert into the mesh, set in_mesh, push Graft
GraftInto(h, id) ==
    [h EXCEPT !.m.mesh_peers = @ \cup {id},
              !.m.known_peers[id].in_mesh = TRUE,
              !.ctl = @ \cup {GraftCtl(id)}]

\* known, not in the mesh, not in backoff
Outside(m) == {id \in Known(m) : id \notin m.mesh_peers /\ ~InBackoff(m, id)}

\* mutant: the threshold test written as !(score < threshold), which lets NaN pass
UnderflowCandidatesAdmitNaN(m) ==
    {id \in Outside(m) : ~FLt(PeerScore(m, id), m.config.graft_threshold)}

UnderflowCandidates(m) ==
    {id \in Outside(m) : FGe(PeerScore(m, id), m.config.graft_threshold)}

\* mutant: an if in place of the while, one graft per heartbeat
UnderflowGraftOnce(h) ==
    IF Cardinality(h.m.mesh_peers) >= h.m.config.d_low THEN {h}
    ELSE IF UnderflowCandidates(h.m) = {} THEN {h}
    ELSE {GraftInto(h, id) : id \in Highest(h.m, UnderflowCandidates(h.m))}

RECURSIVE UnderflowGraft(_)
UnderflowGraft(h) ==
    IF Cardinality(h.m.mesh_peers) >= h.m.config.d_low THEN {h}
    ELSE IF UnderflowCandidates(h.m) = {} THEN {h}
    ELSE UNION {UnderflowGraft(GraftInto(h, id)) :
                    id \in Highest(h.m, UnderflowCandidates(h.m))}

\* the scores of the ids in S in ascending order
RECURSIVE SortedScores(_, _)
SortedScores(m, S) ==
    IF S = {} THEN <<>>
    ELSE LET x == CHOOSE y \in Lowest(m, S) : TRUE
         IN  <<PeerScore(m, x)>> \o SortedScores(m, S \ {x})

Dbl(x) == IF IsFinite(x) THEN 2 * x ELSE x

\* mesh_median_score, doubled (so that the mean of two scores stays an integer)
Median2(m) ==
    LET scores == SortedScores(m, MeshScored(m))
        n == Len(scores)
        mid == n \div 2
    IN  IF n = 0 THEN 0
        ELSE IF n % 2 = 0 THEN FAdd(scores[mid], scores[mid + 1])
        ELSE Dbl(scores[mid + 1])

\* scores.sort_by(|a, b| a.partial_cmp(b).unwrap()) in src/src/mesh.rs
MedianPanics(m) == CmpPanics(m, MeshScored(m))

OpportunisticCandidates(m, median2) ==
    {id \in Outside(m) : FGt(Dbl(PeerScore(m, id)), median2)}

\* the candidates taken, in order: src/src/mesh.rs takes the first two in
\* iteration order, hypha-core the two highest scores
TakenSeqs(m, C) ==
    IF C = {} THEN {<<>>}
    ELSE LET firsts == IF variant = "core" THEN Highest(m, C) ELSE C
         IN  UNION {
               LET rest == C \ {x}
                   seconds == IF variant = "core" THEN Highest(m, rest) ELSE rest
               IN  IF rest = {} \/ OpportunisticTake < 2 THEN {<<x>>}
                   ELSE {<<x, y>> : y \in seconds}
               : x \in firsts}

RECURSIVE GraftSeq(_, _)
GraftSeq(h, ids) ==
    IF ids = <<>> THEN h
    ELSE IF Cardinality(h.m.mesh_peers) >= h.m.config.d_high THEN h
    ELSE GraftSeq(GraftInto(h, Head(ids)), Tail(ids))

OpportunisticGraft(h) ==
    IF MedianPanics(h.m) THEN {[h EXCEPT !.panic = TRUE]}
    ELSE LET median2 == Median2(h.m)
         IN  IF /\ FLt(median2, 2 * h.m.config.opportunistic_graft_threshold)
                /\ Cardinality(h.m.mesh_peers) < h.m.config.d_high
             THEN {GraftSeq(h, ids) :
                      ids \in TakenSeqs(h.m, OpportunisticCandidates(h.m, median2))}
             ELSE {h}

\* weak-link replacement; src/src/mesh.rs records no backoff for the weak
\* peer and leaves its in_mesh set
\* mutant: the margin is required of the candidate twice
WeakLinkCandidatesTwiceMargin(m, weak_score) ==
    {id \in Outside(m) :
        FGt(PeerScore(m, id), FAdd(FAdd(weak_score, WeakLinkMargin), WeakLinkMargin))}

WeakLinkCandidates(m, weak_score) ==
    {id \in Outside(m) : FGt(PeerScore(m, id), FAdd(weak_score, WeakLinkMargin))}

WeakLinkSwap(h, weak_id, best_id, t) ==
    LET m1 == ClearInMesh([h.m EXCEPT !.mesh_peers = @ \ {weak_id}], {weak_id})
        m2 == IF variant = "core"
              THEN [m1 EXCEPT !.backoff = Put(@, weak_id, t + WeakLinkBackoffSecs)]
              ELSE m1
        h1 == [h EXCEPT !.m = m2,
                        !.ctl = @ \cup {PruneCtl(weak_id, WeakLinkBackoffSecs)}]
    IN  GraftInto(h1, best_id)

WeakLink(h, t) ==
    IF Cardinality(h.m.mesh_peers) < h.m.config.d_low THEN {h}
    ELSE IF CmpPanics(h.m, MeshScored(h.m)) THEN {[h EXCEPT !.panic = TRUE]}
    ELSE IF MeshScored(h.m) = {} THEN {h}
    ELSE UNION {
           LET C == WeakLinkCandidates(h.m, PeerScore(h.m, weak_id))
           IN  IF C = {} THEN {h}
               ELSE {WeakLinkSwap(h, weak_id, best_id, t) : best_id \in Highest(h.m, C)}
           : weak_id \in Lowest(h.m, MeshScored(h.m))}

\* lazy push: IHave to d_lazy.min(len) random non-mesh peers, with at most
\* ten ids of the cache
SubsetsOfSize(S, k) == {T \in SUBSET S : Cardinality(T) = k}

LazyPush(h) ==
    LET non_mesh == Known(h.m) \ h.m.mesh_peers
        k == Min(h.m.config.d_lazy, Cardinality(non_mesh))
        n == Min(IHaveMaxIds, Cardinality(h.m.message_cache))
    IN  IF h.m.message_cache = {} \/ k = 0 THEN {h}
        ELSE {[h EXCEPT !.ctl = @ \cup {IHaveCtl(id, ids) : id \in targets}] :
                 targets \in SubsetsOfSize(non_mesh, k),
                 ids \in SubsetsOfSize(h.m.message_cache, n)}

\* heartbeat at time t: every possible [m, ctl, panic]
Heartbeat(m, t) ==
    LET h0 == {[m |-> m, ctl |-> {}, panic |-> FALSE]}
        Sweep(h) == SweepBackoff(h, t)
        Score_(h) == ScorePrune(h, t)
        Over(h) == OverflowPrune(h, t)
        Weak(h) == WeakLink(h, t)
    IN  Then(Then(Then(Then(Then(Then(Then(Then(h0,
            Decay), Sweep), Score_), Over), UnderflowGraft),
            OpportunisticGraft), Weak), LazyPush)

-----------------------------------------------------------------------------
(* handle_control: the new mesh and the reply (a set: empty for None) *)

PruneReply == PruneCtl(NoPeer, PruneBackoffSecs)

HandleControl(m, peer_id, ctrl, t) ==
    CASE ctrl.kind = "Graft" ->
            [m |-> HandleGraft(m, peer_id),
             reply |-> IF GraftAccepts(m, peer_id) THEN {} ELSE {PruneReply}]
      [] ctrl.kind = "Prune" ->
            [m |-> HandlePrune(m, peer_id, ctrl.backoff, t), reply |-> {}]
      [] ctrl.kind = "IHave" ->
            LET missing == ctrl.ids \ m.message_cache
            IN  [m |-> m, reply |-> IF missing # {} THEN {IWantCtl(missing)} ELSE {}]
      [] ctrl.kind = "IWant" ->
            [m |-> m, reply |-> {}]

HandleControlPanics(ctrl, t) ==
    ctrl.kind = "Prune" /\ HandlePrunePanics(ctrl.backoff, t)

-----------------------------------------------------------------------------
(* The TopicMesh state machine: the public operations in any order *)

MeshPeers == {"a", "b"}
MsgIds == {"m1", "m2"}
EnergyInputs == {NaN, -700, 0, 900}
PressureInputs == {0, 10000}
IntensityInputs == {100, 255}
BackoffInputs == {10, DurationMax}
AdaptiveInputs == {100, 900}
ClockSteps == {60}

ControlInputs ==
    {GraftCtl(NoPeer), IWantCtl({"m1"})}
      \cup {PruneCtl(NoPeer, b) : b \in BackoffInputs}
      \cup {IHaveCtl(NoPeer, {"m1", "m2"})}

\* the mesh scenarios run no SporeNode and publish nothing
NoNodes == <<>>
EmptyNet == [msgs |-> {}, originals |-> 0]

\* no publish loop of examples/netem_node.rs is running
NoRetry == [pc |-> "none"]

Op(op, peer, ctrl, out) == [op |-> op, peer |-> peer, ctrl |-> ctrl, out |-> out]
NoCtl == Ctl(NoPeer, "none", 0, {})
NoOp == Op("none", NoPeer, NoCtl, {})

InitMesh ==
    /\ variant \in Variants
    /\ mesh = NewMesh(DefaultConfig)
    /\ now = 0
    /\ panicked = FALSE
    /\ last = NoOp
    /\ beats = 0
    /\ calls = <<>>
    /\ nodes = NoNodes
    /\ net = EmptyNet
    /\ known_bids = <<>>
    /\ retry = NoRetry

DoAddPeer(p, e) ==
    /\ ~panicked
    /\ mesh' = AddPeer(mesh, p, e)
    /\ last' = NoOp
    /\ UNCHANGED <<known_bids, retry, calls, nodes, net, variant, now, panicked, beats>>

DoUpdatePeerScore(p, e) ==
    /\ ~panicked
    /\ mesh' = UpdatePeerScore(mesh, p, e)
    /\ last' = NoOp
    /\ UNCHANGED <<known_bids, retry, calls, nodes, net, variant, now, panicked, beats>>

DoUpdatePeerPressure(p, pr) ==
    /\ ~panicked
    /\ mesh' = UpdatePeerPressure(mesh, p, pr)
    /\ last' = NoOp
    /\ UNCHANGED <<known_bids, retry, calls, nodes, net, variant, now, panicked, beats>>

DoHandleSpike(p, intensity) ==
    /\ ~panicked
    /\ p \in Known(mesh) => mesh.known_peers[p].conductivity <= MaxSpikeCond
    /\ mesh' = HandleSpike(mesh, p, intensity)
    /\ last' = NoOp
    /\ UNCHANGED <<known_bids, retry, calls, nodes, net, variant, now, panicked, beats>>

DoHandleControl(p, ctrl) ==
    /\ ~panicked
    /\ IF HandleControlPanics(ctrl, now)
       THEN /\ panicked' = TRUE
            /\ mesh' = HandlePrunePartial(mesh, p)
            /\ last' = Op("handle_control", p, ctrl, {})
       ELSE LET r == HandleControl(mesh, p, ctrl, now)
            IN  /\ mesh' = r.m
                /\ last' = Op("handle_control", p, ctrl, r.reply)
                /\ panicked' = FALSE
    /\ UNCHANGED <<known_bids, retry, calls, nodes, net, variant, now, beats>>

DoHeartbeat ==
    /\ ~panicked
    /\ beats < MaxHeartbeats
    /\ \E h \in Heartbeat(mesh, now) :
          /\ mesh' = h.m
          /\ panicked' = h.panic
          /\ last' = Op("heartbeat", NoPeer, NoCtl, h.ctl)
    /\ beats' = beats + 1
    /\ UNCHANGED <<known_bids, retry, calls, nodes, net, variant, now>>

\* mesh.config = MeshConfig::adaptive(energy)
DoSetConfig(e) ==
    /\ ~panicked
    /\ mesh' = [mesh EXCEPT !.config = Adaptive(e)]
    /\ last' = NoOp
    /\ UNCHANGED <<known_bids, retry, calls, nodes, net, variant, now, panicked, beats>>

\* time passes between two operations
Advance(dt) ==
    /\ ~panicked
    /\ now + dt <= MaxNow
    /\ now' = now + dt
    /\ last' = NoOp
    /\ UNCHANGED <<known_bids, retry, calls, nodes, net, variant, mesh, panicked, beats>>

NextMesh ==
    \/ \E p \in MeshPeers, e \in EnergyInputs : DoAddPeer(p, e)
    \/ \E p \in MeshPeers, e \in EnergyInputs : DoUpdatePeerScore(p, e)
    \/ \E p \in MeshPeers, c \in ControlInputs : DoHandleControl(p, c)
    \/ DoHeartbeat
    \/ \E e \in AdaptiveInputs : DoSetConfig(e)
    \/ \E dt \in ClockSteps : Advance(dt)

Spec == InitMesh /\ [][NextMesh]_vars

-----------------------------------------------------------------------------
(* The overflow scenario: five known peers, so that the mesh can hold more  *)
(* members than the d_high = 4 of the critical adaptive configuration.      *)
(* It starts after five add_peer calls.  Peer ids are interchangeable       *)
(* (iteration order is modelled as a free choice), so only the number of    *)
(* peers added with the high energy is drawn.                               *)

PeerOrder == <<"a", "b", "c", "d", "e">>
OverflowAddInputs == <<0, 900>>     \* the low and the high energy_score
OverflowUpdateInputs == {NaN, PInf}

RECURSIVE AddPeers(_, _, _)
AddPeers(m, ids, n_high) ==
    IF ids = <<>> THEN m
    ELSE AddPeers(AddPeer(m, Head(ids),
                          IF n_high > 0 THEN OverflowAddInputs[2] ELSE OverflowAddInputs[1]),
                  Tail(ids), IF n_high > 0 THEN n_high - 1 ELSE 0)

InitOverflow ==
    /\ variant \in Variants
    /\ \E n_high \in 0..Len(PeerOrder) :
          mesh = AddPeers(NewMesh(DefaultConfig), PeerOrder, n_high)
    /\ now = 0
    /\ panicked = FALSE
    /\ last = NoOp
    /\ beats = 0
    /\ calls = <<>>
    /\ nodes = NoNodes
    /\ net = EmptyNet
    /\ known_bids = <<>>
    /\ retry = NoRetry

NonFinitePeers(m) == {p \in Known(m) : ~IsFinite(m.known_peers[p].energy_score)}

\* The mesh is filled before the first heartbeat: a status message with a
\* non-finite energy_score, from at most MaxNonFinite peers, and Graft requests
DoUpdateNonFinite(p, e) ==
    /\ beats = 0
    /\ Cardinality(NonFinitePeers(mesh) \cup {p}) <= MaxNonFinite
    /\ DoUpdatePeerScore(p, e)

DoSetupGraft(p) ==
    /\ beats = 0
    /\ DoHandleControl(p, GraftCtl(NoPeer))

NextOverflow ==
    \/ \E p \in Known(mesh), e \in OverflowUpdateInputs : DoUpdateNonFinite(p, e)
    \/ \E p \in Known(mesh) : DoSetupGraft(p)
    \/ \E e \in AdaptiveInputs : DoSetConfig(e)
    \/ DoHeartbeat

SpecOverflow == InitOverflow /\ [][NextOverflow]_vars

-----------------------------------------------------------------------------
(* The graft scenario (test_mesh_graft_below_d_low): peers are added with   *)
(* energy 0.5 + 0.05 i to an empty mesh; before the first heartbeat some    *)
(* of them are made ineligible by a low energy status or by a Prune.        *)

GraftAddInputs == <<500, 550, 600, 650, 700>>

RECURSIVE AddPeersWith(_, _, _)
AddPeersWith(m, ids, energies) ==
    IF ids = <<>> THEN m
    ELSE AddPeersWith(AddPeer(m, Head(ids), Head(energies)), Tail(ids), Tail(energies))

InitGraft ==
    /\ variant \in Variants
    /\ \E e \in {100, 300, 900} :
          mesh = AddPeersWith([NewMesh(DefaultConfig) EXCEPT !.config = Adaptive(e)],
                              PeerOrder, GraftAddInputs)
    /\ now = 0
    /\ panicked = FALSE
    /\ last = NoOp
    /\ beats = 0
    /\ calls = <<>>
    /\ nodes = NoNodes
    /\ net = EmptyNet
    /\ known_bids = <<>>
    /\ retry = NoRetry

\* before the first heartbeat: update_peer_score with a low energy, and
\* handle_control(Prune) with a 10 s backoff
NextGraft ==
    \/ \E p \in Known(mesh) : beats = 0 /\ DoUpdatePeerScore(p, -700)
    \/ \E p \in Known(mesh) : beats = 0 /\ DoHandleControl(p, PruneCtl(NoPeer, 10))
    \/ DoHeartbeat
    \/ \E dt \in ClockSteps : Advance(dt)

SpecGraft == InitGraft /\ [][NextGraft]_vars

-----------------------------------------------------------------------------
(* The flow scenario: record_message calls on a mesh whose peers are known  *)
(* from the start, interleaved with the operations that move pressure and   *)
(* conductivity.                                                            *)

RecordEnergyInputs == {800}

RECURSIVE AddPeerSet(_, _, _)
AddPeerSet(m, K, e) ==
    IF K = {} THEN m
    ELSE LET id == CHOOSE x \in K : TRUE
         IN  AddPeerSet(AddPeer(m, id, e), K \ {id}, e)

InitRecord ==
    /\ variant \in Variants
    /\ \E K \in SUBSET MeshPeers, e \in RecordEnergyInputs :
          mesh = AddPeerSet(NewMesh(DefaultConfig), K, e)
    /\ now = 0
    /\ panicked = FALSE
    /\ last = NoOp
    /\ beats = 0
    /\ calls = <<>>
    /\ nodes = NoNodes
    /\ net = EmptyNet
    /\ known_bids = <<>>
    /\ retry = NoRetry

DoRecordMessage(p, id) ==
    /\ ~panicked
    /\ Len(calls) < MaxCalls
    /\ mesh' = RecordMessage(mesh, p, id)
    /\ calls' = Append(calls, <<p, id>>)
    /\ last' = NoOp
    /\ UNCHANGED <<known_bids, retry, nodes, net, variant, now, panicked, beats>>

DoSetPressure(pr) ==
    /\ ~panicked
    /\ mesh' = SetPressure(mesh, pr)
    /\ last' = NoOp
    /\ UNCHANGED <<known_bids, retry, calls, nodes, net, variant, now, panicked, beats>>

NextRecord ==
    \/ \E p \in MeshPeers, id \in MsgIds : DoRecordMessage(p, id)
    \/ \E p \in MeshPeers, pr \in PressureInputs : DoUpdatePeerPressure(p, pr)
    \/ \E pr \in PressureInputs : DoSetPressure(pr)
    \/ \E p \in MeshPeers, i \in IntensityInputs : DoHandleSpike(p, i)

SpecRecord == InitRecord /\ [][NextRecord]_vars

-----------------------------------------------------------------------------
(* The seeded scenario (test_opportunistic_grafting): six members of energy *)
(* 0.2 inserted into mesh_peers directly, four outside peers of energy 0.8; *)
(* the configuration is the default one or the one of the test, whose       *)
(* opportunistic_graft_threshold is 0.5.                                    *)

SeedLow == {"low0", "low1", "low2", "low3", "low4", "low5"}
SeedHigh == {"high0", "high1", "high2", "high3"}

SeedMesh(threshold) ==
    [AddPeerSet(AddPeerSet(NewMesh([DefaultConfig EXCEPT
                                       !.opportunistic_graft_threshold = threshold]),
                           SeedLow, 200),
                SeedHigh, 800)
        EXCEPT !.mesh_peers = SeedLow]

InitSeed ==
    /\ variant \in Variants
    /\ \E th \in {OpportunisticGraftThreshold, 25000} : mesh = SeedMesh(th)
    /\ now = 0
    /\ panicked = FALSE
    /\ last = NoOp
    /\ beats = 0
    /\ calls = <<>>
    /\ nodes = NoNodes
    /\ net = EmptyNet
    /\ known_bids = <<>>
    /\ retry = NoRetry

SpecSeed == InitSeed /\ [][DoHeartbeat]_vars

-----------------------------------------------------------------------------
(* The SporeNode driver, src/src/lib.rs run_for.  It uses crate::mesh, the  *)
(* copy of src/src/mesh.rs.  One handler (a timer tick, an inbound message)  *)
(* runs to its end, or to the place where it stops for good, in one step.   *)

Nodes == {"n1", "n2"}
External == "ext"

\* a gossipsub message as the driver sees it: propagation source, message id
\* (source and sequence number, the transport's default message id), topic
\* and the decoded payload
Msg(to, src, id, topic) ==
    [to |-> to, src |-> src, id |-> id, topic |-> topic,
     ok |-> TRUE,            \* the payload decodes (serde_json, yrs)
     energy_score |-> 0, target |-> NoPeer, ctrl |-> NoCtl,
     source |-> NoPeer, intensity |-> 0, sync |-> "none", updates |-> {}]

NewNode(energy, phase, dynamic) ==
    [energy |-> energy,
     dynamic_heartbeat |-> dynamic,
     mesh |-> [NewMesh(DefaultConfig) EXCEPT !.pulse_phase = phase],
     db |-> {},
     shared_state |-> {},    \* the CRDT document, as the set of updates applied
     guards |-> {},          \* the live MutexGuards of self.mesh, by lock site
     halted |-> "no",        \* "no", "relock" (lock() never returns), "panic"
     interval |-> 0,         \* the heartbeat interval set by the last tick, ms
     next_tick_in |-> 0,     \* ms until heartbeat.tick() completes next
     seqno |-> 0,            \* messages published so far
     ticks |-> 0,
     relays |-> 0]           \* emergent relays published so far

\* the state of a handler: the node, the messages it has published
Running(node) == [node |-> node, out |-> {}]

ThenN(H, Step(_)) ==
    UNION {IF h.node.halted # "no" THEN {h} ELSE Step(h) : h \in H}

\* self.mesh.lock().unwrap() at the given line: std::sync::Mutex::lock does
\* not return (deadlock or panic) when this thread already holds the lock
Lock(h, site) ==
    IF h.node.guards # {}
    THEN [h EXCEPT !.node.halted = "relock"]
    ELSE [h EXCEPT !.node.guards = @ \cup {site}]

\* the guard taken at the given line goes out of scope
Unlock(h, site) == [h EXCEPT !.node.guards = @ \ {site}]

\* gossipsub.publish: one copy for every other node, under a fresh message id
Publish(h, self, m) ==
    LET id == <<self, h.node.seqno + 1>>
    IN  [h EXCEPT !.node.seqno = @ + 1,
                  !.out = @ \cup {[m EXCEPT !.to = n, !.src = self, !.id = id] :
                                      n \in Nodes \ {self}}]

\* the f32 remainder x % y (y > 0): the result keeps the sign of x
FRem(x, y) == IF x >= 0 THEN x % y ELSE -((-x) % y)

\* diff * weight, rounded toward zero to a multiple of 0.001
FMul(x, w) == IF x * w >= 0 THEN (x * w) \div One ELSE -((-(x * w)) \div One)

\* tick_pulse
TickPulse(m, delta) == [m EXCEPT !.pulse_phase = FRem(@ + delta, One)]

\* mutant: the wrap-around of the difference is left out
AlignPulseNoWrap(m, neighbor_phase, weight) ==
    LET diff == neighbor_phase - m.pulse_phase
        p == FRem(m.pulse_phase + FMul(diff, weight), One)
    IN  [m EXCEPT !.pulse_phase = IF p < 0 THEN p + One ELSE p]

\* align_pulse
AlignPulse(m, neighbor_phase, weight) ==
    LET diff0 == neighbor_phase - m.pulse_phase
        diff == IF diff0 > One \div 2 THEN diff0 - One
                ELSE IF diff0 < -(One \div 2) THEN diff0 + One
                ELSE diff0
        p == FRem(m.pulse_phase + FMul(diff, weight), One)
    IN  [m EXCEPT !.pulse_phase = IF p < 0 THEN p + One ELSE p]

\* heartbeat_interval, in milliseconds
HeartbeatInterval(score, pressure) ==
    LET base_ms == IF score < 200 THEN 60000
                   ELSE IF score < 500 THEN 10000
                   ELSE 1000
    IN  IF score > 400 /\ pressure > 5000
        THEN IF pressure >= 4 * 5000 THEN base_ms \div 4
             ELSE (base_ms * 5000) \div pressure
        ELSE base_ms

\* the emergent relay decision
ShouldRelay(energy, pressure, pulse_phase) ==
    IF energy > 900 THEN TRUE
    ELSE energy > 600 /\ pressure < 7000 /\ pulse_phase > 700

\* a panic inside a mesh call made by the driver unwinds run_for
Panic(h) == [h EXCEPT !.node.halted = "panic"]

\* the timer branch of the select: pulse, status and heartbeat at the pulse
\* peak, pressure, heartbeat interval, anti-entropy
TickPulseScope(h, delta) ==
    LET h1 == Lock(h, "345")
    IN  IF h1.node.halted # "no" THEN {h1}
        ELSE {Unlock([h1 EXCEPT !.node.mesh = TickPulse(@, delta)], "345")}

RECURSIVE PublishControls(_, _, _)
PublishControls(h, self, ctl) ==
    IF ctl = {} THEN h
    ELSE LET c == CHOOSE x \in ctl : TRUE
         IN  PublishControls(
                 Publish(h, self, [Msg(NoPeer, self, <<>>, "control")
                                      EXCEPT !.target = c.to,
                                             !.ctrl = [c EXCEPT !.to = NoPeer]]),
                 self, ctl \ {c})

\* the block of the pulse peak: status, adaptive config, heartbeat, controls
PeakScope(h, self) ==
    LET h1 == Publish(h, self, [Msg(NoPeer, self, <<>>, "status")
                                   EXCEPT !.energy_score = h.node.energy])
        h2 == Lock(h1, "359")
        m2 == [h2.node.mesh EXCEPT !.config = Adaptive(h.node.energy)]
    IN  IF h2.node.halted # "no" THEN {h2}
        ELSE {IF b.panic THEN Panic([h2 EXCEPT !.node.mesh = b.m])
              ELSE PublishControls(
                       Unlock([h2 EXCEPT !.node.mesh = b.m], "359"),
                       self, b.ctl)
              : b \in Heartbeat(m2, now)}

\* mutant: the gate written as phase >= 0.8
HeartbeatScopeAtPeakOrEqual(h, self) ==
    IF h.node.mesh.pulse_phase < 800 THEN {h} ELSE PeakScope(h, self)

\* if phase > 0.8 { ... }
HeartbeatScope(h, self) ==
    IF h.node.mesh.pulse_phase <= 800 THEN {h} ELSE PeakScope(h, self)

PressureScope(h) ==
    LET h1 == Lock(h, "378")
        backlog == Cardinality(h.node.mesh.message_cache)
    IN  IF h1.node.halted # "no" THEN {h1}
        ELSE {Unlock([h1 EXCEPT !.node.mesh = SetPressure(@, backlog * (One \div 10))],
                     "378")}

\* heartbeat = tokio::time::interval(self.heartbeat_interval()): the first
\* tick of a new Interval completes immediately; the timer that is kept
\* completes one period (heartbeat_every) after this tick
IntervalScope(h) ==
    IF ~h.node.dynamic_heartbeat
    THEN {[h EXCEPT !.node.next_tick_in = 1000]}     \* heartbeat_every = 1 s
    ELSE LET h1 == Lock(h, "146")
         IN  IF h1.node.halted # "no" THEN {h1}
             ELSE {Unlock([h1 EXCEPT !.node.interval =
                               HeartbeatInterval(h.node.energy,
                                                 h.node.mesh.local_pressure),
                                     !.node.next_tick_in = 0],
                          "146")}

\* rng().random_bool(0.1): either outcome
AntiEntropy(h, self) ==
    {h, Publish(h, self, [Msg(NoPeer, self, <<>>, "state") EXCEPT !.sync = "SyncStep1"])}

TickHandler(node, self, delta) ==
    LET Pulse(h) == TickPulseScope(h, delta)
        Beat(h) == HeartbeatScope(h, self)
        Sync(h) == AntiEntropy(h, self)
    IN  ThenN(ThenN(ThenN(ThenN(ThenN({Running(node)},
            Pulse), Beat), PressureScope), IntervalScope), Sync)

\* the inbound branch of the select, by topic; on the five named topics a
\* payload that does not decode is logged and dropped
NamedTopics == {"status", "control", "task", "spike", "state"}

StatusHandler(h, msg) ==
    LET h1 == Lock(h, "421")
    IN  IF h1.node.halted # "no" THEN {h1}
        ELSE {Unlock([h1 EXCEPT !.node.mesh =
                         UpdatePeerScore(@, msg.src, msg.energy_score)], "421")}

\* mutant: the reply is published with the target of the request as its target
ControlHandlerEchoesTarget(h, self, msg) ==
    IF msg.target # self THEN {h}
    ELSE LET h1 == Lock(h, "441")
         IN  IF h1.node.halted # "no" THEN {h1}
             ELSE IF HandleControlPanics(msg.ctrl, now)
             THEN {Panic([h1 EXCEPT !.node.mesh = HandlePrunePartial(@, msg.src)])}
             ELSE LET r == HandleControl(h1.node.mesh, msg.src, msg.ctrl, now)
                      h2 == [h1 EXCEPT !.node.mesh = r.m]
                      h3 == IF r.reply = {} THEN h2
                            ELSE PublishControls(h2, self,
                                     {[c EXCEPT !.to = msg.target] : c \in r.reply})
                  IN  {Unlock(h3, "441")}

ControlHandler(h, self, msg) ==
    IF msg.target # self THEN {h}
    ELSE LET h1 == Lock(h, "441")
         IN  IF h1.node.halted # "no" THEN {h1}
             ELSE IF HandleControlPanics(msg.ctrl, now)
             THEN {Panic([h1 EXCEPT !.node.mesh = HandlePrunePartial(@, msg.src)])}
             ELSE LET r == HandleControl(h1.node.mesh, msg.src, msg.ctrl, now)
                      h2 == [h1 EXCEPT !.node.mesh = r.m]
                      h3 == IF r.reply = {} THEN h2
                            ELSE PublishControls(h2, self,
                                     {[c EXCEPT !.to = msg.src] : c \in r.reply})
                  IN  {Unlock(h3, "441")}

SpikeHandler(h, msg) ==
    IF msg.intensity <= SpikeThreshold THEN {h}
    ELSE LET h1 == Lock(h, "478")
         IN  IF h1.node.halted # "no" THEN {h1}
             ELSE {Unlock([h1 EXCEPT !.node.mesh =
                              HandleSpike(@, msg.source, msg.intensity)], "478")}

\* shared state: an Update or a sync step 2 is applied to the document; a
\* sync step 1 whose state vector decodes is answered with a sync step 2
StateHandler(h, self, msg) ==
    CASE msg.sync = "SyncStep1" ->
            {Publish(h, self, [Msg(NoPeer, self, <<>>, "state")
                                  EXCEPT !.sync = "SyncStep2",
                                         !.updates = h.node.shared_state])}
      [] msg.sync \in {"Update", "SyncStep2"} ->
            {[h EXCEPT !.node.shared_state = @ \cup msg.updates]}
      [] OTHER -> {h}

\* emergent relay: republish the payload on the topic of the message
RelayStep(h, self, msg) ==
    IF ShouldRelay(h.node.energy, h.node.mesh.local_pressure,
                   h.node.mesh.pulse_phase)
    THEN [Publish(h, self, Msg(NoPeer, self, <<>>, msg.topic))
             EXCEPT !.node.relays = @ + 1]
    ELSE h

\* any other topic: persist, record, relay
GenericHandler(h, self, msg) ==
    LET h1 == Lock([h EXCEPT !.node.db = @ \cup {msg.id}], "521")
        Record(x) == {[x EXCEPT !.node.mesh = RecordMessage(@, msg.src, msg.id)]}
        Read(x) == {Unlock(Lock(x, "527"), "527")}
        Relay(x) == {Unlock(RelayStep(x, self, msg), "521")}
    IN  ThenN(ThenN(ThenN({h1}, Record), Read), Relay)

Dispatch(h, self, msg) ==
    CASE msg.topic = "status" -> StatusHandler(h, msg)
      [] msg.topic = "control" -> ControlHandler(h, self, msg)
      [] msg.topic = "task" -> {h}
      [] msg.topic = "spike" -> SpikeHandler(h, msg)
      [] msg.topic = "state" -> StateHandler(h, self, msg)
      [] OTHER -> GenericHandler(h, self, msg)

\* mutant: a decode failure is propagated with ? and ends run_for
InboundHandlerFatalDecode(node, self, msg) ==
    IF msg.topic \in NamedTopics /\ ~msg.ok
    THEN {[Running(node) EXCEPT !.node.halted = "error"]}
    ELSE Dispatch(Running(node), self, msg)

InboundHandler(node, self, msg) ==
    IF msg.topic \in NamedTopics /\ ~msg.ok
    THEN {Running(node)}
    ELSE Dispatch(Running(node), self, msg)

\* what the driver scenario draws
NodeEnergyInputs == {950, 700}
PhaseInputs == {850}
PulseDeltaInputs == {100, 500}
GenericTopic == "sensor"

MalformedInputs ==
    {[Msg(NoPeer, External, <<>>, t) EXCEPT !.ok = FALSE] : t \in NamedTopics}

ExternalInputs ==
    {Msg(NoPeer, External, <<>>, GenericTopic),
     [Msg(NoPeer, External, <<>>, "status") EXCEPT !.energy_score = 900],
     [Msg(NoPeer, External, <<>>, "spike") EXCEPT !.source = External, !.intensity = 255],
     Msg(NoPeer, External, <<>>, "task"),
     [Msg(NoPeer, External, <<>>, "state") EXCEPT !.sync = "SyncStep1"],
     [Msg(NoPeer, External, <<>>, "state") EXCEPT !.sync = "Update", !.updates = {"u1"}]}
      \cup {[Msg(NoPeer, External, <<>>, "control") EXCEPT !.target = n, !.ctrl = GraftCtl(NoPeer)]
               : n \in Nodes}
      \cup MalformedInputs

InitDriver ==
    /\ variant = "hypha"
    /\ mesh = NewMesh(DefaultConfig)
    /\ now = 0
    /\ panicked = FALSE
    /\ last = NoOp
    /\ beats = 0
    /\ calls = <<>>
    /\ nodes \in [Nodes -> {NewNode(e, ph, dyn) : e \in NodeEnergyInputs,
                                ph \in PhaseInputs, dyn \in BOOLEAN}]
    /\ net = EmptyNet
    /\ known_bids = <<>>
    /\ retry = NoRetry

DoTick(n, delta) ==
    /\ nodes[n].halted = "no"
    /\ nodes[n].ticks < MaxTicks
    /\ \E h \in TickHandler(nodes[n], n, delta) :
          /\ nodes' = [nodes EXCEPT ![n] = [h.node EXCEPT !.ticks = @ + 1]]
          /\ net' = [net EXCEPT !.msgs = @ \cup h.out]
    /\ last' = Op("tick", n, NoCtl, {})
    /\ UNCHANGED <<known_bids, retry, calls, variant, mesh, now, panicked, beats>>

DoDeliver(msg) ==
    /\ nodes[msg.to].halted = "no"
    /\ \E h \in InboundHandler(nodes[msg.to], msg.to, msg) :
          /\ nodes' = [nodes EXCEPT ![msg.to] = h.node]
          /\ net' = [net EXCEPT !.msgs = (@ \ {msg}) \cup h.out]
    /\ last' = Op(IF msg.ok THEN "deliver" ELSE "deliver_malformed", msg.to, NoCtl, {})
    /\ UNCHANGED <<known_bids, retry, calls, variant, mesh, now, panicked, beats>>

\* a peer outside the model publishes; every node gets a copy
DoPublishExternal(m) ==
    /\ net.originals < MaxOriginals
    /\ net' = [msgs |-> net.msgs \cup
                          {[m EXCEPT !.to = n, !.id = <<External, net.originals + 1>>]
                              : n \in Nodes},
               originals |-> net.originals + 1]
    /\ last' = NoOp
    /\ UNCHANGED <<known_bids, retry, calls, nodes, variant, mesh, now, panicked, beats>>

NextDriver ==
    \/ \E n \in Nodes, delta \in PulseDeltaInputs : DoTick(n, delta)
    \/ \E msg \in net.msgs : DoDeliver(msg)
    \/ \E m \in ExternalInputs : DoPublishExternal(m)

SpecDriver == InitDriver /\ [][NextDriver]_vars

\* The decode scenario: the messages of outside peers are the malformed ones
\* and two that decode.
DecodeInputs ==
    MalformedInputs \cup
    {[Msg(NoPeer, External, <<>>, "status") EXCEPT !.energy_score = 900],
     [Msg(NoPeer, External, <<>>, "state") EXCEPT !.sync = "Update", !.updates = {"u1"}]}

\* one node runs run_for; its neighbour is connected but does not run its loop
DecodeNode == "n1"
IdleNode ==
    NewNode(CHOOSE e \in NodeEnergyInputs : TRUE, CHOOSE ph \in PhaseInputs : TRUE, FALSE)

InitDecode ==
    /\ InitDriver
    /\ \A n \in Nodes \ {DecodeNode} : nodes[n] = IdleNode

NextDecode ==
    \/ \E delta \in PulseDeltaInputs : DoTick(DecodeNode, delta)
    \/ \E msg \in {m \in net.msgs : m.to = DecodeNode} : DoDeliver(msg)
    \/ \E m \in DecodeInputs : DoPublishExternal(m)

SpecDecode == InitDecode /\ [][NextDecode]_vars

\* The tick scenario: one node runs run_for on a mesh to which two
\* neighbours of energy 0.8 were added beforehand (as in
\* examples/emergent_auction_live.rs); only its timer fires.
InitTick ==
    /\ variant = "hypha"
    /\ mesh = NewMesh(DefaultConfig)
    /\ now = 0
    /\ panicked = FALSE
    /\ last = NoOp
    /\ beats = 0
    /\ calls = <<>>
    /\ \E e \in {100, 300, 700, 950}, ph \in {0, 400, 700, 850}, dyn \in BOOLEAN :
          nodes = [n \in Nodes |->
                      IF n = DecodeNode
                      THEN [NewNode(e, ph, dyn) EXCEPT !.mesh = AddPeerSet(@, MeshPeers, 800)]
                      ELSE IdleNode]
    /\ net = EmptyNet
    /\ known_bids = <<>>
    /\ retry = NoRetry

SpecTick == InitTick /\ [][\E delta \in PulseDeltaInputs : DoTick(DecodeNode, delta)]_vars

\* The inbound scenario: the node of the tick scenario receives what its
\* neighbour "a" and a peer it does not know publish: control messages for it
\* and for another node, spikes that name a source, a generic-topic message.
InboundInputs ==
    {[Msg(NoPeer, src, <<>>, "control") EXCEPT !.target = t, !.ctrl = c] :
        src \in {External, "a"}, t \in Nodes,
        c \in {GraftCtl(NoPeer), IWantCtl({"m1"}), PruneCtl(NoPeer, 10),
               IHaveCtl(NoPeer, {"m1", "m2"})}}
      \cup {[Msg(NoPeer, External, <<>>, "spike") EXCEPT !.source = p, !.intensity = i] :
                p \in {External, "a"}, i \in IntensityInputs}
      \cup {Msg(NoPeer, External, <<>>, GenericTopic)}

InitInbound ==
    /\ InitTick
    /\ ~nodes[DecodeNode].dynamic_heartbeat

SpecInbound ==
    InitInbound /\
    [][\/ \E delta \in PulseDeltaInputs : DoTick(DecodeNode, delta)
       \/ \E msg \in {m \in net.msgs : m.to = DecodeNode} : DoDeliver(msg)
       \/ \E m \in InboundInputs : DoPublishExternal(m)]_vars

-----------------------------------------------------------------------------
(* The pulse scenario: tick_pulse and align_pulse on one TopicMesh, whose   *)
(* pulse_phase TopicMesh::new draws in [0, 1).  calls holds the arguments   *)
(* of the last call and the phase it found.                                 *)

InitPulse ==
    /\ variant \in Variants
    /\ \E ph \in {0, 100, 900} : mesh = [NewMesh(DefaultConfig) EXCEPT !.pulse_phase = ph]
    /\ now = 0
    /\ panicked = FALSE
    /\ last = NoOp
    /\ beats = 0
    /\ calls = <<>>
    /\ nodes = NoNodes
    /\ net = EmptyNet
    /\ known_bids = <<>>
    /\ retry = NoRetry

DoTickPulse(delta) ==
    /\ mesh' = TickPulse(mesh, delta)
    /\ last' = Op("tick_pulse", NoPeer, NoCtl, {})
    /\ calls' = <<[before |-> mesh.pulse_phase, arg |-> delta, weight |-> 0]>>
    /\ UNCHANGED <<known_bids, retry, nodes, net, variant, now, panicked, beats>>

DoAlignPulse(neighbor_phase, weight) ==
    /\ mesh' = AlignPulse(mesh, neighbor_phase, weight)
    /\ last' = Op("align_pulse", NoPeer, NoCtl, {})
    /\ calls' = <<[before |-> mesh.pulse_phase, arg |-> neighbor_phase, weight |-> weight]>>
    /\ UNCHANGED <<known_bids, retry, nodes, net, variant, now, panicked, beats>>

NextPulse ==
    \/ \E delta \in {-300, 100, 1500} : DoTickPulse(delta)
    \/ \E n \in {0, 100, 600, 900}, w \in {0, 500, 1000} : DoAlignPulse(n, w)

SpecPulse == InitPulse /\ [][NextPulse]_vars

-----------------------------------------------------------------------------
(* Properties of the TopicMesh state machine (Spec) *)

LastIsControl(kind) ==
    last.op = "handle_control" /\ last.ctrl.kind = kind

\* C1: after any sequence of operations every peer in mesh_peers has a record
\* in known_peers, that record has in_mesh = true, and the peer has no
\* entry in backoff.
C1_MeshMembersConsistent ==
    \A p \in mesh.mesh_peers :
        /\ p \in Known(mesh)
        /\ mesh.known_peers[p].in_mesh
        /\ ~InBackoff(mesh, p)

\* C3: after handle_prune(p, b), p is not in mesh_peers and backoff[p] >= now + b;
\* a handle_graft(p) issued while p has an unexpired backoff returns false
\* (handle_control replies Prune) and leaves p out of mesh_peers.
C3_BackoffBlocksGraft ==
    /\ (LastIsControl("Prune") /\ ~panicked) =>
          /\ last.peer \notin mesh.mesh_peers
          /\ InBackoff(mesh, last.peer)
          /\ mesh.backoff[last.peer] >= now + last.ctrl.backoff
    /\ (LastIsControl("Graft") /\ InBackoff(mesh, last.peer)
            /\ mesh.backoff[last.peer] > now) =>
          /\ last.out = {PruneReply}
          /\ last.peer \notin mesh.mesh_peers

\* C6: a peer whose score is NaN is never added to mesh_peers, by no
\* operation (heartbeat, handle_graft / handle_control(Graft)).
C6_NaNNeverGrafted ==
    [][\A p \in mesh'.mesh_peers \ mesh.mesh_peers :
            ~IsNaN(PeerScore(mesh', p))]_vars

\* C6 witness: a heartbeat has ended with the mesh below d_low while a known
\* peer outside the mesh and outside backoff has a NaN score.
C6_Witness ==
    /\ last.op = "heartbeat"
    /\ ~panicked
    /\ Cardinality(mesh.mesh_peers) < mesh.config.d_low
    /\ \E p \in Outside(mesh) : IsNaN(PeerScore(mesh, p))

\* C7: handle_control never panics, for any peer id and any control message.
C7_HandleControlNeverPanics ==
    last.op = "handle_control" => ~panicked

-----------------------------------------------------------------------------
(* Properties of the heartbeat with an over-full mesh (SpecOverflow) *)

PrunedBy(out) == {c.to : c \in {x \in out : x.kind = "Prune"}}

\* C2: at the end of every heartbeat, from any starting state (also a mesh
\* larger than d_high because the adaptive config lowered d_high),
\* |mesh_peers| <= d_high.
C2_HeartbeatBoundsMesh ==
    (last.op = "heartbeat" /\ ~panicked) =>
        Cardinality(mesh.mesh_peers) <= mesh.config.d_high

\* C2 witness: a heartbeat that started with more than d_high members has
\* ended with exactly d_high.
C2_Witness ==
    /\ last.op = "heartbeat"
    /\ ~panicked
    /\ Cardinality(mesh.mesh_peers) = mesh.config.d_high
    /\ Cardinality(mesh.mesh_peers \cup PrunedBy(last.out)) > mesh.config.d_high

\* C4: heartbeat never panics when known or in-mesh peers have a NaN or
\* infinite energy_score, in any mesh state.
C4_HeartbeatNeverPanics ==
    last.op = "heartbeat" => ~panicked

\* C5: when the heartbeat picks the lowest-scoring member (overflow prune,
\* weakest link), a member whose score is NaN is chosen before any member
\* with a finite score: no heartbeat removes, by that choice, a member with a
\* finite score at or above prune_threshold while a NaN member stays.
C5_NaNChosenFirst ==
    (last.op = "heartbeat" /\ ~panicked) =>
        \A q \in PrunedBy(last.out) :
            (/\ q \in Known(mesh)
             /\ IsFinite(PeerScore(mesh, q))
             /\ FGe(PeerScore(mesh, q), mesh.config.prune_threshold)) =>
                \A p \in mesh.mesh_peers : ~IsNaN(PeerScore(mesh, p))

-----------------------------------------------------------------------------
(* Properties of record_message (SpecRecord) *)

RECURSIVE CallsWith(_, _)
CallsWith(cs, p) ==
    IF cs = <<>> THEN 0
    ELSE (IF Head(cs)[1] = p THEN 1 ELSE 0) + CallsWith(Tail(cs), p)

DistinctIds(cs) == {cs[i][2] : i \in DOMAIN cs}

\* C8: after any sequence of record_message calls, message_cache is the set
\* of distinct ids recorded, duplicate_count is the number of calls minus the
\* number of distinct ids, and every known peer's message_count is the number
\* of calls made with its id.
C8_RecordMessageCounts ==
    /\ mesh.message_cache = DistinctIds(calls)
    /\ mesh.duplicate_count = Len(calls) - Cardinality(DistinctIds(calls))
    /\ \A p \in Known(mesh) :
          mesh.known_peers[p].message_count = CallsWith(calls, p)

\* C8 witness: three calls with the same peer and the same id
C8_Witness ==
    /\ Len(calls) = 3
    /\ mesh.duplicate_count = 2
    /\ Cardinality(mesh.message_cache) = 1
    /\ \E p \in Known(mesh) : mesh.known_peers[p].message_count = 3

-----------------------------------------------------------------------------
(* Properties of the driver (SpecDriver) *)

\* C10: while handling a timer tick or an inbound message the driver never
\* locks the TopicMesh mutex while it still holds it, so the handling of a
\* message on a generic topic completes and the loop goes on.
C10_NoRelock ==
    \A n \in Nodes : nodes[n].halted # "relock"

C11_MalformedDropped ==
    [][last'.op = "deliver_malformed" =>
          /\ nodes' = nodes
          /\ net'.msgs \subseteq net.msgs
          /\ nodes'[last'.peer].halted = "no"]_vars

\* C11 witness: a node that has handled a timer tick has just dropped a
\* malformed message and is still running.
C11_Witness ==
    /\ last.op = "deliver_malformed"
    /\ nodes[last.peer].ticks >= 1
    /\ nodes[last.peer].halted = "no"

-----------------------------------------------------------------------------
(* Properties of handle_control(Graft) (Spec) *)

GraftEligible(m, p) ==
    /\ ~InBackoff(m, p)
    /\ p \in Known(m)
    /\ FGe(PeerScore(m, p), m.config.graft_threshold)
    /\ Cardinality(m.mesh_peers) < m.config.d_high

\* C12: handle_control(p, Graft) adds p to mesh_peers and returns None exactly
\* when p is not in backoff, score(p) >= graft_threshold and
\* |mesh_peers| < d_high; in every other case it returns Prune{topic, 60s}
\* and does not add p.
C12_GraftExactlyWhenEligible ==
    [][(last'.op = "handle_control" /\ last'.ctrl.kind = "Graft") =>
          IF GraftEligible(mesh, last'.peer)
          THEN /\ last'.peer \in mesh'.mesh_peers
               /\ last'.out = {}
          ELSE /\ last'.out = {PruneReply}
               /\ mesh'.mesh_peers = mesh.mesh_peers]_vars

-----------------------------------------------------------------------------
(* Properties of the state a heartbeat leaves *)

HeartbeatReturned == last.op = "heartbeat" /\ ~panicked

\* a peer the mesh could hold instead of a member below the prune threshold
Alternatives(m) ==
    {q \in Known(m) \ m.mesh_peers :
        ~InBackoff(m, q) /\ FGe(PeerScore(m, q), m.config.prune_threshold)}

EligibleToGraft(m) ==
    {q \in Known(m) \ m.mesh_peers :
        ~InBackoff(m, q) /\ FGe(PeerScore(m, q), m.config.graft_threshold)}

\* the mesh as the underflow step of heartbeat(m, t) finds it
BeforeUnderflow(m, t) ==
    LET h0 == {[m |-> m, ctl |-> {}, panic |-> FALSE]}
        Sweep(h) == SweepBackoff(h, t)
        Score_(h) == ScorePrune(h, t)
        Over(h) == OverflowPrune(h, t)
    IN  {h.m : h \in Then(Then(Then(Then(h0, Decay), Sweep), Score_), Over)}

\* C14: in a heartbeat, while |mesh_peers| < d_low the underflow step grafts
\* the highest-scoring peer that is not in the mesh, not in backoff and has
\* score >= graft_threshold, and stops only when d_low is reached or no such
\* peer is left; so if at least d_low such peers exist, |mesh_peers| >= d_low
\* at the end of that heartbeat.
C14_UnderflowGraftsToDLow ==
    [][(last'.op = "heartbeat" /\ ~panicked') =>
          /\ \/ Cardinality(mesh'.mesh_peers) >= mesh'.config.d_low
             \/ EligibleToGraft(mesh') = {}
          /\ \A p \in mesh'.mesh_peers \ mesh.mesh_peers, q \in EligibleToGraft(mesh') :
                PeerScore(mesh', q) <= PeerScore(mesh', p)
          /\ \A m \in BeforeUnderflow(mesh, now) :
                Cardinality(EligibleToGraft(m)) >= m.config.d_low =>
                    Cardinality(mesh'.mesh_peers) >= mesh'.config.d_low]_vars

\* C14 witness: the first heartbeat has filled an empty mesh up to the default
\* d_low = 4 with four Graft messages, and a fifth eligible peer stays outside.
C14_Witness ==
    /\ HeartbeatReturned /\ beats = 1
    /\ mesh.config.d_low = DLowDefault
    /\ Cardinality(mesh.mesh_peers) = DLowDefault
    /\ Cardinality({c \in last.out : c.kind = "Graft"}) = DLowDefault
    /\ PrunedBy(last.out) = {}
    /\ EligibleToGraft(mesh) # {}

-----------------------------------------------------------------------------
(* Properties of the seeded scenario (SpecSeed) *)

FirstHeartbeat == beats = 0 /\ last'.op = "heartbeat" /\ ~panicked'

\* C15: starting from a mesh whose 6 members all have energy 0.2 plus 4 known
\* non-mesh peers with energy 0.8, a single heartbeat() promotes at least one
\* of the outside peers into mesh_peers and the median score of mesh_peers
\* after the heartbeat is strictly greater than before it.
C15_PromotionRaisesMedian ==
    [][FirstHeartbeat =>
          /\ mesh'.mesh_peers \cap SeedHigh # {}
          /\ FGt(Median2(mesh'), Median2(mesh))]_vars

\* C15 as the code has it: the single heartbeat promotes at least one of the
\* outside peers, and the median score of mesh_peers after it is strictly
\* lower than before: it is still the score of a member of energy 0.2,
\* which the conductivity decay has lowered.
C15_PromotionKeepsLowMedian ==
    [][FirstHeartbeat =>
          /\ mesh'.mesh_peers \cap SeedHigh # {}
          /\ FLt(Median2(mesh'), Median2(mesh))
          /\ \E p \in SeedLow : Median2(mesh') = Dbl(PeerScore(mesh', p))]_vars

\* C15 witness: the first heartbeat on the default configuration has returned
\* with one outside peer in the mesh in place of a pruned member.
C15_Witness ==
    /\ HeartbeatReturned /\ beats = 1
    /\ mesh.config.opportunistic_graft_threshold = OpportunisticGraftThreshold
    /\ Cardinality(mesh.mesh_peers \cap SeedHigh) = 1
    /\ Cardinality(mesh.mesh_peers \cap SeedLow) = 5

-----------------------------------------------------------------------------
(* Range properties of the peer records *)

\* C16: in every reachable state every known peer's conductivity lies in
\* [0.5, 10.0]: increases from record_message saturate at 10, the +2.0 bump
\* from handle_spike is clamped to 10, and heartbeat decay never goes
\* below 0.5.
C16_ConductivityInRange ==
    \A p \in Known(mesh) :
        /\ mesh.known_peers[p].conductivity >= CondFloor
        /\ mesh.known_peers[p].conductivity <= CondCeil

\* C17: in every reachable state known_peers[p].in_mesh is true only if p is
\* in mesh_peers: every removal from mesh_peers (score-based prune, overflow
\* prune, weak-link replacement, handle_prune) clears in_mesh.
C17_InMeshOnlyIfMember ==
    \A p \in Known(mesh) :
        mesh.known_peers[p].in_mesh => p \in mesh.mesh_peers

-----------------------------------------------------------------------------
(* Properties of the pulse (SpecPulse) *)

InUnitInterval(ph) == ph >= 0 /\ ph < One

\* C18: after any sequence of tick_pulse(delta) and align_pulse(neighbor_phase,
\* weight) calls, for any delta (negative values and values above 1
\* included), neighbor_phase in [0,1) and weight in [0,1], pulse_phase is
\* in [0,1).
C18_PulsePhaseInUnitInterval ==
    InUnitInterval(mesh.pulse_phase)

\* the wrap-aware distance of two phases
CircularDistance(a, b) ==
    LET d == Abs(a - b) % One IN Min(d, One - d)

\* C19: for any pulse_phase and neighbor_phase in [0,1) and any weight in
\* [0,1], the wrap-aware distance between pulse_phase and neighbor_phase
\* after align_pulse(neighbor_phase, weight) is no larger than before the call.
C19_AlignPulseNeverDiverges ==
    (last.op = "align_pulse" /\ InUnitInterval(calls[1].before)) =>
        CircularDistance(mesh.pulse_phase, calls[1].arg)
            <= CircularDistance(calls[1].before, calls[1].arg)

\* C19 witness: the call of test_phase_alignment, across the wrap: phase 0.1,
\* neighbour 0.9, weight 0.5 has left phase 0.0, at distance 0.1 instead of 0.2.
C19_Witness ==
    /\ last.op = "align_pulse"
    /\ calls[1] = [before |-> 100, arg |-> 900, weight |-> 500]
    /\ mesh.pulse_phase = 0
    /\ CircularDistance(mesh.pulse_phase, 900) = 100

\* C20: score(p) is in [0,1] for every peer in known_peers in every reachable
\* state, also after update_peer_score with the energy_score of a received
\* EnergyStatus, after add_peer with any energy value and after
\* update_peer_pressure with any pressure value.  (Scores are in 1/50000.)
C20_ScoreInUnitInterval ==
    \A p \in Known(mesh) :
        /\ IsFinite(PeerScore(mesh, p))
        /\ PeerScore(mesh, p) >= 0
        /\ PeerScore(mesh, p) <= 50 * One

-----------------------------------------------------------------------------
(* Properties of the timer tick (SpecTick) *)

Sent(topic) == {m \in net'.msgs \ net.msgs : m.topic = topic}

\* C21: on every timer tick the driver advances the pulse by pulse_delta and
\* then, exactly when the new pulse_phase > 0.8, publishes EnergyStatus, sets
\* the mesh config to MeshConfig::adaptive(energy), calls heartbeat() and
\* publishes every returned (target, ctrl) pair on the control topic; when
\* pulse_phase <= 0.8 none of these four actions happens in that tick.
C21_PulseGatesHeartbeat ==
    [][last'.op = "tick" =>
        LET old == nodes[last'.peer]
            new == nodes'[last'.peer]
            ph == new.mesh.pulse_phase
            ticked == [old.mesh EXCEPT !.pulse_phase = ph]
            pressure == new.mesh.local_pressure
        IN  /\ \E delta \in PulseDeltaInputs : ph = TickPulse(old.mesh, delta).pulse_phase
            /\ IF ph > 800
               THEN /\ \E m \in Sent("status") : m.energy_score = old.energy
                    /\ new.mesh.config = Adaptive(old.energy)
                    /\ \E b \in Heartbeat([ticked EXCEPT !.config = Adaptive(old.energy)], now) :
                          /\ new.mesh = [b.m EXCEPT !.local_pressure = pressure]
                          /\ {<<m.target, m.ctrl.kind>> : m \in Sent("control")}
                                = {<<c.to, c.kind>> : c \in b.ctl}
               ELSE /\ Sent("status") = {} /\ Sent("control") = {}
                    /\ new.mesh = [ticked EXCEPT !.local_pressure = pressure]]_vars

\* C21 witness: a tick at the pulse peak has published the status and the
\* Graft messages of the heartbeat that filled the mesh.
C21_Witness ==
    /\ last.op = "tick"
    /\ nodes[last.peer].mesh.pulse_phase > 800
    /\ nodes[last.peer].mesh.mesh_peers = MeshPeers
    /\ \E m \in net.msgs : m.topic = "status" /\ m.src = last.peer
    /\ \A p \in MeshPeers :
          \E m \in net.msgs : m.topic = "control" /\ m.target = p /\ m.ctrl.kind = "Graft"

\* C22: with dynamic heartbeat enabled, the delay between one timer tick and
\* the next equals heartbeat_interval() as computed at the earlier tick (60 s
\* if energy < 0.2, 10 s if energy < 0.5, otherwise 1 s, divided by
\* min(local_pressure/5, 4) when energy > 0.4 and local_pressure > 5.0);
\* re-arming the timer never makes the next tick fire immediately.
C22_NextTickAfterInterval ==
    \A n \in DOMAIN nodes :
        (nodes[n].dynamic_heartbeat /\ nodes[n].ticks >= 1 /\ nodes[n].halted = "no") =>
            /\ nodes[n].next_tick_in
                  = HeartbeatInterval(nodes[n].energy, nodes[n].mesh.local_pressure)
            /\ nodes[n].next_tick_in > 0

-----------------------------------------------------------------------------
(* Properties of the inbound handlers (SpecInbound) *)

\* the message a delivery step hands to run_for, and what the step publishes
Delivered == net.msgs \ net'.msgs
Published == net'.msgs \ net.msgs

\* C23: when a node receives an IWant addressed to it, handle_control returns
\* None and the caller re-publishes the requested messages, so a peer that
\* answered an IHave with IWant eventually receives the messages it asked for.
C23_IWantIsServed ==
    [][\A msg \in Delivered :
          (last'.op = "deliver" /\ msg.topic = "control" /\ msg.target = msg.to
              /\ msg.ctrl.kind = "IWant") =>
            /\ \A m \in Published : m.topic # "control"
            /\ Published # {}]_vars

\* C24: a control message whose target_peer differs from the receiver's own
\* peer id leaves the receiver's TopicMesh completely unchanged and produces
\* no reply; a reply returned by handle_control for a message addressed to
\* the receiver is published with the original sender as its target.
C24_ControlTargetFilter ==
    [][\A msg \in Delivered :
          (last'.op = "deliver" /\ msg.topic = "control") =>
            IF msg.target # msg.to
            THEN /\ nodes'[msg.to].mesh = nodes[msg.to].mesh
                 /\ Published = {}
            ELSE LET r == HandleControl(nodes[msg.to].mesh, msg.src, msg.ctrl, now)
                 IN  /\ nodes'[msg.to].mesh = r.m
                     /\ {<<m.topic, m.src, m.target, m.ctrl.kind>> : m \in Published}
                           = {<<"control", msg.to, msg.src, c.kind>> : c \in r.reply}]_vars

\* C24 witness: the node has answered the Graft of a peer it does not know
\* with a Prune addressed to that peer.
C24_Witness ==
    /\ last.op = "deliver"
    /\ \E m \in net.msgs :
          /\ m.topic = "control" /\ m.src = DecodeNode
          /\ m.target = External /\ m.ctrl.kind = "Prune"
    /\ External \notin nodes[DecodeNode].mesh.mesh_peers

\* C25: a received spike with intensity > 200 raises conductivity only for
\* the peer that actually delivered it (the transport-level source of the
\* inbound message); a peer cannot raise the conductivity of a different
\* peer by naming that peer in the source field of the payload.
C25_SpikeCreditsSender ==
    [][\A msg \in Delivered :
          (last'.op = "deliver" /\ msg.topic = "spike") =>
            \A p \in Known(nodes[msg.to].mesh) :
                nodes'[msg.to].mesh.known_peers[p].conductivity
                    > nodes[msg.to].mesh.known_peers[p].conductivity
                  => p = msg.src]_vars

(***************************************************************************)
(* Publish with retry: the publisher and the relay of                      *)
(* examples/netem_node.rs.  Each attempt is one gossipsub publish whose    *)
(* outcome (Ok or a PublishError) is chosen by the transport; the loop     *)
(* sleeps between attempts, so each attempt is one step.                   *)
(***************************************************************************)

\* the relay's `for _ in 0..10` and the default of
\* HYPHA_NETEM_PUB_PUBLISH_RETRIES
PublishRetries == 10

\* gossipsub::PublishError kinds the transport may return
PublishErrors == {"InsufficientPeers", "MessageTooLarge", "Duplicate"}

\* the loop before its first iteration: `let mut last_err = None` and a range
\* of `retries` iterations; a range of zero iterations falls through to the
\* code after the loop at once
RetryStart(mode, retries) ==
    LET r == [pc |-> "loop", mode |-> mode, retries |-> retries, n |-> 0,
              last_err |-> "None", delivered |-> FALSE, result |-> "None"]
    IN  IF retries > 0 THEN r
        ELSE [r EXCEPT !.pc = "done",
                       !.result = IF mode = "pub" THEN "Err" ELSE "Ok"]

\* one iteration of the publisher's loop: Ok returns Ok(()) from main, an
\* error is kept in last_err; after the last iteration main returns
\* Err("publish failed after retries")
PublisherAttempt(r, outcome) ==
    IF outcome = "Ok"
    THEN [r EXCEPT !.n = @ + 1, !.delivered = TRUE,
                   !.pc = "done", !.result = "Ok"]
    ELSE LET r1 == [r EXCEPT !.n = @ + 1, !.last_err = outcome]
         IN  IF r1.n < r1.retries THEN r1
             ELSE [r1 EXCEPT !.pc = "done", !.result = "Err"]

\* what the relay does once its loop is left:
\* `if last_err.is_some() { return Err(..) }`, else it goes on relaying
RelayAfterLoop(r) ==
    [r EXCEPT !.pc = "done",
              !.result = IF r.last_err # "None" THEN "Err" ELSE "Ok"]

\* one iteration of the relay's loop: Ok breaks out of the loop, an error
\* is kept in last_err (and stays there when a later attempt succeeds)
RelayAttempt(r, outcome) ==
    IF outcome = "Ok"
    THEN RelayAfterLoop([r EXCEPT !.n = @ + 1, !.delivered = TRUE])
    ELSE LET r1 == [r EXCEPT !.n = @ + 1, !.last_err = outcome]
         IN  IF r1.n < r1.retries THEN r1 ELSE RelayAfterLoop(r1)

DoPublisherAttempt(outcome) ==
    /\ retry.pc = "loop" /\ retry.mode = "pub"
    /\ retry' = PublisherAttempt(retry, outcome)
    /\ UNCHANGED <<variant, mesh, now, panicked, last, beats, calls, nodes,
                   net, known_bids>>

DoRelayAttempt(outcome) ==
    /\ retry.pc = "loop" /\ retry.mode = "relay"
    /\ retry' = RelayAttempt(retry, outcome)
    /\ UNCHANGED <<variant, mesh, now, panicked, last, beats, calls, nodes,
                   net, known_bids>>

\* the publisher reads its bound from the environment (default
\* PublishRetries); the relay's bound is the literal
InitRetry ==
    /\ variant = "hypha"
    /\ mesh = NewMesh(DefaultConfig)
    /\ now = 0
    /\ panicked = FALSE
    /\ last = NoOp
    /\ beats = 0
    /\ calls = <<>>
    /\ nodes = NoNodes
    /\ net = EmptyNet
    /\ known_bids = <<>>
    /\ \/ \E retries \in {0, 1, 2, 3, PublishRetries} :
             retry = RetryStart("pub", retries)
       \/ retry = RetryStart("relay", PublishRetries)

SpecRetry ==
    InitRetry /\ [][\E outcome \in {"Ok"} \cup PublishErrors :
                       \/ DoPublisherAttempt(outcome)
                       \/ DoRelayAttempt(outcome)]_vars

\* C26: publish with retry makes at most 10 attempts, reports success when
\* some attempt succeeded, and reports an error only when every attempt
\* failed.
C26_RetryReportsAnySuccess ==
    retry.pc = "done" =>
        /\ retry.n <= PublishRetries
        /\ retry.delivered => retry.result = "Ok"
        /\ retry.result = "Err" => ~retry.delivered

(***************************************************************************)
(* The emergent auction: SporeNode::process_task_bundle on a list of       *)
(* known bids that the caller owns (examples/emergent_auction_live.rs      *)
(* shares one list per task among the nodes).                              *)
(***************************************************************************)

\* the length up to which the list of known bids is explored
MaxBids == 3

\* `cost_mah: 50.0`
BidCostMah == 50000

\* `task.reach_intensity < 0.1`
ReachFloor == 100

Bid(task_id, bidder_id, energy_score, cost_mah) ==
    [task_id |-> task_id, bidder_id |-> bidder_id,
     energy_score |-> energy_score, cost_mah |-> cost_mah]

\* a token is a sequence of text fragments; None is no token at all
NoToken == <<"None">>

Task(id, cap, reach_intensity, auth_token) ==
    [id |-> id, required_capability |-> cap,
     reach_intensity |-> reach_intensity, auth_token |-> auth_token]

\* validate_ucan: the empty token is invalid, a token containing
\* "auth-valid" is valid, every other token is invalid
ValidateUcan(token) ==
    IF token = <<>> THEN FALSE
    ELSE \E i \in 1..Len(token) : token[i] = "auth-valid"

\* the bids of `bids` that are for the task, in list order
RECURSIVE BidsFor(_, _)
BidsFor(bids, task_id) ==
    IF bids = <<>> THEN <<>>
    ELSE IF Head(bids).task_id = task_id
         THEN <<Head(bids)>> \o BidsFor(Tail(bids), task_id)
         ELSE BidsFor(Tail(bids), task_id)

\* Iterator::max_by with total_cmp on energy_score: a fold that keeps the
\* accumulator only when it compares Greater (the last of several maxima
\* wins)
RECURSIVE MaxByEnergy(_, _)
MaxByEnergy(acc, bids) ==
    IF bids = <<>> THEN acc
    ELSE MaxByEnergy(IF TotalCmp(acc.energy_score, Head(bids).energy_score) = "gt"
                     THEN acc ELSE Head(bids),
                     Tail(bids))

\* best_bid: None (the empty set) or Some(the greatest bid for the task)
BestBid(bids, task_id) ==
    LET mine == BidsFor(bids, task_id)
    IN  IF mine = <<>> THEN {} ELSE {MaxByEnergy(Head(mine), Tail(mine))}

\* mutant: the bid is pushed before the capability is looked at
ProcessTaskBundlePushesFirst(node, task, bids) ==
    LET score == node.energy
        bid   == Bid(task.id, node.peer_id,
                     FMul(score, task.reach_intensity), BidCostMah)
        None  == [bids |-> bids, out |-> {}]
    IN  IF task.auth_token # NoToken /\ ~ValidateUcan(task.auth_token)
        THEN None
        ELSE IF \E best \in BestBid(bids, task.id) :
                    FLt(score, best.energy_score)
        THEN None
        ELSE IF FLt(task.reach_intensity, ReachFloor)
        THEN None
        ELSE IF task.required_capability \in node.capabilities
        THEN [bids |-> Append(bids, bid), out |-> {bid}]
        ELSE [bids |-> Append(bids, bid), out |-> {}]

\* process_task_bundle: the list after the call and the returned Option
\* (the empty set is None)
ProcessTaskBundle(node, task, bids) ==
    LET score == node.energy
        bid   == Bid(task.id, node.peer_id,
                     FMul(score, task.reach_intensity), BidCostMah)
        None  == [bids |-> bids, out |-> {}]
    IN  IF task.auth_token # NoToken /\ ~ValidateUcan(task.auth_token)
        THEN None
        ELSE IF \E best \in BestBid(bids, task.id) :
                    FLt(score, best.energy_score)
        THEN None
        ELSE IF FLt(task.reach_intensity, ReachFloor)
        THEN None
        ELSE IF task.required_capability \in node.capabilities
        THEN [bids |-> Append(bids, bid), out |-> {bid}]
        ELSE None

\* the bids other nodes have placed (tests/adversarial_inputs.rs puts a NaN
\* bid and a finite bid in the list)
BidInputs ==
    {Bid(t, "a", e, 1000) : t \in {"t", "u"}, e \in {NaN, 500, 900}}

TaskInputs ==
    {Task("t", "Compute(1)", r, tok) :
        r \in {50, 500, One},
        tok \in {NoToken, <<>>, <<"auth-valid">>, <<"x", "auth-valid", "y">>,
                 <<"forged">>}}

\* the caller puts a bid of another node in the list
DoKnownBid(b) ==
    /\ Len(known_bids) < MaxBids
    /\ known_bids' = Append(known_bids, b)
    /\ last' = Op("known_bid", b.bidder_id, NoCtl, {})
    /\ UNCHANGED <<variant, mesh, now, panicked, beats, calls, nodes, net,
                   retry>>

\* the node is offered the task; `calls` keeps the task of the last call
DoProcessTaskBundle(task) ==
    /\ Len(known_bids) < MaxBids
    /\ LET r == ProcessTaskBundle(nodes[1], task, known_bids)
       IN  /\ known_bids' = r.bids
           /\ last' = Op("process_task_bundle", nodes[1].peer_id, NoCtl, r.out)
    /\ calls' = <<task>>
    /\ UNCHANGED <<variant, mesh, now, panicked, beats, nodes, net, retry>>

\* one bidding node: its energy score and whether it has the capability
InitAuction ==
    /\ variant = "hypha"
    /\ mesh = NewMesh(DefaultConfig)
    /\ now = 0
    /\ panicked = FALSE
    /\ last = NoOp
    /\ beats = 0
    /\ calls = <<>>
    /\ \E e \in {300, 700, One}, caps \in {{}, {"Compute(1)"}} :
          nodes = <<[peer_id |-> "self", energy |-> e, capabilities |-> caps]>>
    /\ net = EmptyNet
    /\ known_bids = <<>>
    /\ retry = NoRetry

SpecAuction ==
    InitAuction /\ [][\/ \E b \in BidInputs : DoKnownBid(b)
                      \/ \E task \in TaskInputs : DoProcessTaskBundle(task)]_vars

\* the call just made was process_task_bundle
Bundled == last'.op = "process_task_bundle"

\* C27: if some known bid for the task has a finite energy_score greater
\* than the node's own energy, process_task_bundle declines, also when other
\* known bids for that task have a NaN energy_score (NaN ranks below every
\* number when the best bid is chosen).
C27_NaNBidsRankLowest ==
    [][(/\ Bundled
        /\ \E i \in 1..Len(known_bids) :
              /\ known_bids[i].task_id = calls'[1].id
              /\ IsFinite(known_bids[i].energy_score)
              /\ known_bids[i].energy_score > nodes[1].energy)
          => last'.out = {}]_vars

\* C28: a call of process_task_bundle that declines leaves the list of known
\* bids as it was, and it declines only for an invalid token, an energy below
\* a known bid for the task, a reach_intensity below 0.1 or a missing
\* capability; a call that bids appends exactly one bid {task id, own id,
\* energy times reach_intensity, cost 50} and returns that bid.
C28_DeclineKeepsBidsBidAppendsOne ==
    [][Bundled =>
         LET task == calls'[1]
             bid  == Bid(task.id, nodes[1].peer_id,
                         FMul(nodes[1].energy, task.reach_intensity), 50000)
         IN  IF last'.out = {}
             THEN /\ known_bids' = known_bids
                  /\ \/ task.auth_token \in {<<>>, <<"forged">>}
                     \/ \E i \in 1..Len(known_bids) :
                           /\ known_bids[i].task_id = task.id
                           /\ known_bids[i].energy_score # NaN
                           /\ known_bids[i].energy_score > nodes[1].energy
                     \/ task.reach_intensity < 100
                     \/ task.required_capability \notin nodes[1].capabilities
             ELSE /\ last'.out = {bid}
                  /\ known_bids' = Append(known_bids, bid)]_vars

\* C28 witness: the node has just declined a task with a forged token, and
\* the list it was given holds a bid of another node and a bid the node
\* itself appended in an earlier call
C28_Witness ==
    /\ last.op = "process_task_bundle"
    /\ last.out = {}
    /\ calls[1].auth_token = <<"forged">>
    /\ \E i, j \in 1..Len(known_bids) :
          /\ known_bids[i].bidder_id = "self"
          /\ known_bids[j].bidder_id = "a"

\* C29: update_peer_score(id, e) is an upsert: whether or not id was in
\* known_peers before, it is in known_peers afterwards with energy_score e.
C29_UpdatePeerScoreUpserts ==
    [][\A p \in MeshPeers, e \in EnergyInputs :
          DoUpdatePeerScore(p, e) =>
              /\ p \in Known(mesh')
              /\ mesh'.known_peers[p].energy_score = e]_vars

\* C30: a peer has a record in known_peers once the driver has handled a
\* generic-topic message from it (which it records with record_message) or a
\* Graft from it addressed to the node.
C30_FirstSightingInserts ==
    [][\A msg \in Delivered :
          (/\ last'.op = "deliver"
           /\ \/ msg.topic = GenericTopic
              \/ /\ msg.topic = "control"
                 /\ msg.ctrl.kind = "Graft"
                 /\ msg.target = msg.to)
            => msg.src \in Known(nodes'[msg.to].mesh)]_vars

C32_PruneNeverShortensBackoff ==
    [][(/\ last'.op = "handle_control"
        /\ last'.ctrl.kind = "Prune"
        /\ ~panicked'
        /\ InBackoff(mesh, last'.peer))
          => /\ InBackoff(mesh', last'.peer)
             /\ mesh'.backoff[last'.peer] >= mesh.backoff[last'.peer]]_vars

\* C33: every member that a heartbeat removes with a Prune of 60 s (the
\* members removed because |mesh_peers| > d_high among them) has a backoff
\* entry of now + 60 s when the heartbeat returns.
C33_OverflowPruneRecordsBackoff ==
    (last.op = "heartbeat" /\ ~panicked) =>
        \A c \in last.out :
            (c.kind = "Prune" /\ c.backoff = 60) =>
                /\ InBackoff(mesh, c.to)
                /\ mesh.backoff[c.to] = now + 60

\* the Prunes of 30 s in a returned control list: the weak-link replacement
WeakPrunes(out) == {c \in out : c.kind = "Prune" /\ c.backoff = 30}

\* C34: a heartbeat replaces at most one weak link, and the member it
\* removes (the one sent Prune{30 s}) is out of the mesh and has a backoff
\* entry of now + 30 s when the heartbeat returns.
C34_WeakLinkPruneRecordsBackoff ==
    (last.op = "heartbeat" /\ ~panicked) =>
        /\ Cardinality(WeakPrunes(last.out)) <= 1
        /\ \A c \in WeakPrunes(last.out) :
              /\ c.to \notin mesh.mesh_peers
              /\ InBackoff(mesh, c.to)
              /\ mesh.backoff[c.to] = now + 30

(***************************************************************************)
(* BatteryMetabolism (hypha-core/src/metabolism.rs), the metabolism of a   *)
(* SporeNode::new.  mah_remaining is in mAh; voltage is in units of        *)
(* 1/25 mV, in which `3.3 + capacity_ratio * 0.9` is 82500 + 9 mAh; the    *)
(* energy score is in units of 1/112500, in which                          *)
(* `v_score * 0.4 + c_score * 0.6` is 2 (voltage - 82500) + 27 mAh.  The   *)
(* arithmetic is exact.                                                    *)
(***************************************************************************)

\* BatteryMetabolism::default(): 4.2 V, 2500 mAh, not mains powered
DefaultBattery ==
    [voltage |-> 105000, mah_remaining |-> 2500, is_mains |-> FALSE]

\* energy_score of the battery, 112500 being 1.0
BatteryEnergyScore(b) ==
    IF b.is_mains THEN 112500
    ELSE Max(0, Min(112500, 2 * (b.voltage - 82500) + 27 * b.mah_remaining))

\* consume: the returned bool and the battery afterwards
Consume(b, cost) ==
    IF b.mah_remaining <= 0 THEN [ok |-> FALSE, b |-> b]
    ELSE LET mah == Max(b.mah_remaining - cost, 0)
         IN  [ok |-> TRUE,
              b  |-> [b EXCEPT !.mah_remaining = mah,
                               !.voltage = 82500 + 9 * mah]]

\* set_mode
SetMode(b, mode) ==
    CASE mode = "Normal" ->
            [b EXCEPT !.voltage = 100000, !.mah_remaining = 2000]
      [] mode = "LowBattery" ->
            [b EXCEPT !.voltage = 90000, !.mah_remaining = 500]
      [] mode = "Critical" ->
            [b EXCEPT !.voltage = 82500, !.mah_remaining = 50]

\* SporeNode::consume_energy; `calls` keeps the cost and the battery found
DoConsume(cost) ==
    /\ LET r == Consume(nodes[1].metabolism, cost)
       IN  /\ nodes' = [nodes EXCEPT ![1].metabolism = r.b]
           /\ last' = Op("consume", nodes[1].peer_id, NoCtl, {r.ok})
    /\ calls' = <<[cost |-> cost, before |-> nodes[1].metabolism]>>
    /\ UNCHANGED <<variant, mesh, now, panicked, beats, net, known_bids, retry>>

\* SporeNode::set_power_mode
DoSetMode(mode) ==
    /\ nodes' = [nodes EXCEPT ![1].metabolism = SetMode(@, mode),
                              ![1].power_mode = mode]
    /\ last' = Op("set_mode", nodes[1].peer_id, NoCtl, {})
    /\ calls' = <<>>
    /\ UNCHANGED <<variant, mesh, now, panicked, beats, net, known_bids, retry>>

\* SporeNode::new: the default battery and PowerMode::Normal
InitBattery ==
    /\ variant = "hypha"
    /\ mesh = NewMesh(DefaultConfig)
    /\ now = 0
    /\ panicked = FALSE
    /\ last = NoOp
    /\ beats = 0
    /\ calls = <<>>
    /\ nodes = <<[peer_id |-> "self", metabolism |-> DefaultBattery,
                  power_mode |-> "Normal"]>>
    /\ net = EmptyNet
    /\ known_bids = <<>>
    /\ retry = NoRetry

SpecBattery ==
    InitBattery /\ [][\/ \E cost \in {0, 10, 50, 300, 2500} : DoConsume(cost)
                      \/ \E mode \in {"Normal", "LowBattery", "Critical"} :
                            DoSetMode(mode)]_vars

\* C35: consume(cost) with cost >= 0 never increases the energy_score of a
\* battery-backed metabolism, from any state, the states that set_mode
\* produces included.
C35_ConsumeNeverRaisesEnergy ==
    last.op = "consume" =>
        BatteryEnergyScore(nodes[1].metabolism)
            <= BatteryEnergyScore(calls[1].before)

(***************************************************************************)
(* The unattended node: run_for on a node made by SporeNode::new (its mesh  *)
(* knows no peer) with no connected peer, so that only the timer branch of *)
(* the select runs.  pulse_delta is an argument of run_for and stays the   *)
(* same for the whole run; `calls` holds it.  What the tick publishes      *)
(* reaches nobody, so only the topics published by the last tick are kept  *)
(* (in last.out).                                                          *)
(***************************************************************************)

InitPeak ==
    /\ variant = "hypha"
    /\ mesh = NewMesh(DefaultConfig)
    /\ now = 0
    /\ panicked = FALSE
    /\ last = NoOp
    /\ beats = 0
    /\ \E delta \in {50, 100, 250, 500} : calls = <<[arg |-> delta]>>
    /\ \E e \in {300, 950}, ph \in {0, 100, 400, 850}, dyn \in BOOLEAN :
          nodes = [n \in Nodes |->
                      IF n = DecodeNode THEN NewNode(e, ph, dyn) ELSE IdleNode]
    /\ net = EmptyNet
    /\ known_bids = <<>>
    /\ retry = NoRetry

\* one completion of heartbeat.tick() in the loop of run_for
DoTickAlone(n) ==
    /\ nodes[n].halted = "no"
    /\ \E h \in TickHandler(nodes[n], n, calls[1].arg) :
          /\ nodes' = [nodes EXCEPT ![n] = [h.node EXCEPT !.seqno = nodes[n].seqno]]
          /\ last' = Op("tick", n, NoCtl, {m.topic : m \in h.out})
    /\ UNCHANGED <<variant, mesh, now, panicked, beats, calls, net, known_bids,
                   retry>>

\* the timer keeps firing as long as run_for runs
SpecPeak ==
    InitPeak /\ [][DoTickAlone(DecodeNode)]_vars
             /\ WF_vars(DoTickAlone(DecodeNode))

\* C36: under run_for with a pulse_delta in (0, 1) the pulse peak is reached
\* again and again: always, a later tick runs the peak block (heartbeat and
\* the status advertisement).
C36_PeakKeepsComing ==
    []<>(last.op = "tick" /\ "status" \in last.out)

\* C37: whenever process_task_bundle returns a bid, the energy_score of that
\* bid is greater than or equal to the energy_score of every (finite) bid
\* already known for the same task.
C37_BidBeatsKnownBids ==
    [][Bundled =>
         \A b \in last'.out :
            \A i \in 1..Len(known_bids) :
                (/\ known_bids[i].task_id = calls'[1].id
                 /\ IsFinite(known_bids[i].energy_score))
                  => b.energy_score >= known_bids[i].energy_score]_vars

\* C38: the list of known bids never holds more than one bid of the same node
\* for the same task, however often the node is offered the task.
C38_OneBidPerNodeAndTask ==
    \A i, j \in 1..Len(known_bids) :
        (/\ known_bids[i].bidder_id = "self"
         /\ known_bids[j].bidder_id = "self"
         /\ known_bids[i].task_id = known_bids[j].task_id)
          => i = j

\* C39: the control list returned by one heartbeat never holds both a Graft
\* and a Prune addressed to the same peer.
C39_NoGraftAndPruneForSamePeer ==
    (last.op = "heartbeat" /\ ~panicked) =>
        \A c, d \in last.out :
            (c.kind = "Graft" /\ d.kind = "Prune") => c.to # d.to

\* C39 witness: a heartbeat has returned Grafts and Prunes together, and the
\* peers it grafted are not the peers it pruned
C39_Witness ==
    /\ last.op = "heartbeat"
    /\ ~panicked
    /\ \E c, d \in last.out : c.kind = "Graft" /\ d.kind = "Prune" /\ c.to # d.to

(***************************************************************************)
(* The deadline of run_for: a node with no connected peer, so that the     *)
(* swarm branch of the select never completes.  The clock `now` counts     *)
(* seconds.  `calls` holds the state of the loop: the deadline, the period *)
(* of the tokio Interval (heartbeat_every), the instant of its next tick   *)
(* and the position in the loop ("top": before the deadline test,          *)
(* "select": awaiting the select, "returned").                             *)
(***************************************************************************)

\* `let deadline = Instant::now() + run_for; let mut heartbeat =
\* tokio::time::interval(heartbeat_every)`: the first tick is due at once
RunFor(run_for, heartbeat_every) ==
    [deadline |-> run_for, heartbeat_every |-> heartbeat_every,
     next_tick |-> 0, pc |-> "top"]

InitDeadline ==
    /\ variant = "hypha"
    /\ mesh = NewMesh(DefaultConfig)
    /\ now = 0
    /\ panicked = FALSE
    /\ last = NoOp
    /\ beats = 0
    /\ \E run_for \in {1, 2, 5}, heartbeat_every \in {1, 10, 60} :
          calls = <<RunFor(run_for, heartbeat_every)>>
    /\ \E e \in NodeEnergyInputs, ph \in {0, 850} :
          nodes = [n \in Nodes |->
                      IF n = DecodeNode THEN NewNode(e, ph, FALSE) ELSE IdleNode]
    /\ net = EmptyNet
    /\ known_bids = <<>>
    /\ retry = NoRetry

\* the top of the loop: `if Instant::now() >= deadline { return Ok(mycelium) }`
DoLoopTop ==
    /\ calls[1].pc = "top"
    /\ IF now >= calls[1].deadline
       THEN /\ calls' = <<[calls[1] EXCEPT !.pc = "returned"]>>
            /\ last' = Op("return", DecodeNode, NoCtl, {})
       ELSE /\ calls' = <<[calls[1] EXCEPT !.pc = "select"]>>
            /\ last' = NoOp
    /\ UNCHANGED <<variant, mesh, now, panicked, beats, nodes, net, known_bids,
                   retry>>

\* the select is pending: no swarm event arrives and the tick is not due
DoWait ==
    /\ calls[1].pc = "select"
    /\ now < calls[1].next_tick
    /\ now < MaxNow
    /\ now' = now + 1
    /\ last' = NoOp
    /\ UNCHANGED <<variant, mesh, panicked, beats, calls, nodes, net,
                   known_bids, retry>>

\* heartbeat.tick() completes, the timer branch runs and the loop goes back
\* to its top; the Interval is due again one period later
DoLoopTick(delta) ==
    /\ calls[1].pc = "select"
    /\ now >= calls[1].next_tick
    /\ nodes[DecodeNode].halted = "no"
    /\ \E h \in TickHandler(nodes[DecodeNode], DecodeNode, delta) :
          /\ nodes' = [nodes EXCEPT ![DecodeNode] =
                          [h.node EXCEPT !.ticks = @ + 1,
                                         !.next_tick_in = 1000 * calls[1].heartbeat_every]]
          /\ net' = [net EXCEPT !.msgs = @ \cup h.out]
    /\ calls' = <<[calls[1] EXCEPT !.next_tick = @ + calls[1].heartbeat_every,
                                   !.pc = "top"]>>
    /\ last' = Op("tick", DecodeNode, NoCtl, {})
    /\ UNCHANGED <<variant, mesh, now, panicked, beats, known_bids, retry>>

SpecDeadline ==
    InitDeadline /\ [][\/ DoLoopTop
                       \/ DoWait
                       \/ \E delta \in PulseDeltaInputs : DoLoopTick(delta)]_vars

\* C40: run_for notices its deadline without waiting for the next timer
\* tick: one second after the deadline at the latest it is no longer awaiting
\* the select, whatever the heartbeat interval.
C40_DeadlineNoticedWithoutTick ==
    calls[1].pc = "select" => now <= calls[1].deadline + 1

=============================================================================
